---- MODULE Spec2Model ----
(***************************************************************************)
(* Model of controllers/portfolio_study_controller.py                      *)
(* (PortfolioStudyController): the field list and per-stock reads of       *)
(* get_portfolio_data, and the frame computations of the plot_* and        *)
(* calculate_* methods (unstack / asfreq('D') / ffill, sums, diff,         *)
(* zero-at-start, dividend combination).                                   *)
(*                                                                         *)
(* Dates are day numbers.  A missing value (pandas NaN / Python None) is   *)
(* the empty tuple, a present value v is <<v>>.  A float quotient is kept  *)
(* exactly as the record [num, den].                                       *)
(***************************************************************************)
EXTENDS Integers, Sequences, FiniteSets, TLC

VARIABLES
    store,        \* rows of the final_metrics table
    params,       \* the params dictionary of the current call
    pc,           \* position of the controller
    fields,       \* get_portfolio_data: the local list `fields`
    idx,          \* get_portfolio_data: position of the loop over selected_stocks
    data_frames,  \* get_portfolio_data: the local list `data_frames`
    reads,        \* the calls made to db_manager.fetch_all_with_params, in order
    outcome,      \* how the last get_portfolio_data ended
    data,         \* self.data
    out,          \* what the last plot_* / calculate_* computation produced:
                  \* after a plot, what the figure shows
    stats_table,  \* the rows of self.view.stats_table
    message,      \* the QMessageBox warning of the current analysis, if any
    charts_tab,   \* the date containers attached to the layout of the Charts tab
    date_container  \* the attribute self.date_container, unset until a distribution plot

widgets == <<stats_table, message, charts_tab, date_container>>

vars == <<store, params, pc, fields, idx, data_frames, reads, outcome, data, out, widgets>>

-----------------------------------------------------------------------------
(* Bounds of the model *)

MaxSel == 2       \* longest selected_stocks list
MaxDate == 2      \* the table of the fetch holds dates 1..MaxDate

Dates == 1..MaxDate

-----------------------------------------------------------------------------
(* Values *)

None == <<>>
Some(v) == <<v>>

SeqsUpTo(S, n) == UNION {[1..k -> S] : k \in 0..n}

Range(s) == {s[i] : i \in 1..Len(s)}

-----------------------------------------------------------------------------
(* The portfolio and the final_metrics table *)

\* portfolio.get_stock(yahoo_symbol): the stock of the portfolio, or None.
\* "A" and "B" are stocks of the portfolio, "X" names no stock of it.
Symbols == {"A", "B", "X"}
PortfolioIds == [A |-> 1, B |-> 2]

get_stock(yahoo_symbol) ==
    IF yahoo_symbol \in DOMAIN PortfolioIds
    THEN Some([id |-> PortfolioIds[yahoo_symbol], yahoo_symbol |-> yahoo_symbol])
    ELSE None

StockIds == {PortfolioIds[s] : s \in DOMAIN PortfolioIds}

\* The columns of final_metrics that the controller names.
MetricColumns ==
    {"market_value", "total_return", "daily_pl", "daily_pl_pct",
     "total_return_pct", "cumulative_return_pct", "cash_dividend",
     "cash_dividends_total", "drp_share", "drp_shares_total", "close_price"}

\* The dividend columns are nullable: None is SQL NULL, NaN in the frame.
DividendColumns ==
    {"cash_dividend", "cash_dividends_total", "drp_share", "drp_shares_total",
     "close_price"}

\* The value 0 of a column.
Zero(c) == IF c \in DividendColumns THEN Some(0) ELSE 0

\* One row of final_metrics: stock_id, date and the metric columns `cols`.
DbRow(stock_id, date, cols) ==
    [c \in {"stock_id", "date"} \cup MetricColumns |->
        IF c = "stock_id" THEN stock_id
        ELSE IF c = "date" THEN date
        ELSE cols[c]]

\* The rows of a set, as the sequence ORDER BY date gives (one row per date).
RECURSIVE OrderByDate(_)
OrderByDate(rows) ==
    IF rows = {} THEN <<>>
    ELSE LET first == CHOOSE r \in rows : \A q \in rows : r.date <= q.date
         IN  <<first>> \o OrderByDate(rows \ {first})

\* SELECT <fields> FROM final_metrics WHERE stock_id = :stock_id
\*   AND date BETWEEN :start_date AND :end_date ORDER BY date
\* Each result is the tuple of the selected columns, in the order of `flds`.
SelectRows(table, flds, stock_id, start_date, end_date) ==
    LET hit == {r \in table : /\ r.stock_id = stock_id
                              /\ start_date <= r.date
                              /\ r.date <= end_date}
        ordered == OrderByDate(hit)
    IN  [k \in 1..Len(ordered) |-> [i \in 1..Len(flds) |-> ordered[k][flds[i]]]]

-----------------------------------------------------------------------------
(* get_portfolio_data: the field list *)

KnownStudyTypes == {"market_value", "profitability", "dividend_performance"}

study_type_mapping(study_type) ==
    CASE study_type = "market_value" -> <<"market_value">>
      [] study_type = "profitability" ->
            <<"total_return", "market_value", "daily_pl", "daily_pl_pct",
              "total_return_pct", "cumulative_return_pct">>
      [] study_type = "dividend_performance" ->
            <<"cash_dividend", "cash_dividends_total", "drp_share",
              "drp_shares_total", "close_price">>

\* list(dict.fromkeys(s)): the first occurrence of every element, in order.
RECURSIVE dict_fromkeys(_)
dict_fromkeys(s) ==
    IF s = <<>> THEN <<>>
    ELSE LET init == dict_fromkeys(SubSeq(s, 1, Len(s) - 1))
             last == s[Len(s)]
         IN  IF last \in Range(init) THEN init ELSE Append(init, last)

\* params['metric'] is absent, one name (appended) or a list (extended);
\* params['metrics'] is absent or a list (extended).
metric_fields(p) ==
    IF p.metric.kind = "absent" THEN <<>> ELSE p.metric.val

metrics_fields(p) ==
    IF p.metrics.kind = "absent" THEN <<>> ELSE p.metrics.val

study_fields(p) ==
    IF p.study_type \in KnownStudyTypes
    THEN study_type_mapping(p.study_type)
    ELSE <<>>

\* The list the query is built from, before duplicates are removed.
collected_fields(p) ==
    <<"date">> \o <<"market_value">> \o study_fields(p)
        \o metric_fields(p) \o metrics_fields(p)

\* The list with its duplicates left in.
build_fields_keep_duplicates(p) == collected_fields(p)

build_fields(p) == dict_fromkeys(collected_fields(p))

-----------------------------------------------------------------------------
(* get_portfolio_data: the reads and the frame *)

\* A DataFrame: its column names and its rows (records over the columns).
\* pd.DataFrame() has no column and no row.
EmptyFrame == [columns |-> <<>>, rows |-> <<>>]

\* df = pd.DataFrame(results, columns=fields); df['stock'] = yahoo_symbol
\* Column fields[i] takes position i of every result tuple.
PositionOf(flds, c) == CHOOSE i \in 1..Len(flds) : flds[i] = c

tagged_frame(results, flds, yahoo_symbol) ==
    [columns |-> Append(flds, "stock"),
     rows |-> [k \in 1..Len(results) |->
                 [c \in Range(flds) \cup {"stock"} |->
                    IF c = "stock" THEN yahoo_symbol
                    ELSE results[k][PositionOf(flds, c)]]]]

\* The frames taken last to first.
RECURSIVE concat_rows_reversed(_)
concat_rows_reversed(frames) ==
    IF frames = <<>> THEN <<>>
    ELSE concat_rows_reversed(Tail(frames)) \o frames[1].rows

\* pd.concat(data_frames, ignore_index=True): the rows of the frames, in order.
RECURSIVE concat_rows(_)
concat_rows(frames) ==
    IF frames = <<>> THEN <<>>
    ELSE frames[1].rows \o concat_rows(Tail(frames))

concat(frames) == [columns |-> frames[1].columns, rows |-> concat_rows(frames)]

\* The return statement of get_portfolio_data.
returned_frame(frames) == IF frames # <<>> THEN concat(frames) ELSE EmptyFrame

\* The view before any analysis: an empty statistics table, no message, no
\* date container on the Charts tab and no date_container attribute.
NoWidgets ==
    /\ stats_table = <<>>
    /\ message = None
    /\ charts_tab = {}
    /\ date_container = None

Pending == [kind |-> "pending", frame |-> EmptyFrame]
Raised == [kind |-> "raised", frame |-> EmptyFrame]
Returned(f) == [kind |-> "frame", frame |-> f]

selected_stocks == params.selected_stocks

\* analyse_portfolio calls get_portfolio_data(params): the field list is built
\* and the loop over selected_stocks starts.
get_portfolio_data_begin(p) ==
    /\ pc = "idle"
    /\ params' = p
    /\ fields' = build_fields(p)
    /\ idx' = 1
    /\ data_frames' = <<>>
    /\ reads' = <<>>
    /\ outcome' = Pending
    /\ pc' = "fetching"
    /\ UNCHANGED <<store, data, out, widgets>>

\* `if stock:` fails: the symbol names no stock of the portfolio.
skip_symbol ==
    /\ pc = "fetching"
    /\ idx <= Len(selected_stocks)
    /\ get_stock(selected_stocks[idx]) = None
    /\ idx' = idx + 1
    /\ UNCHANGED <<store, params, pc, fields, data_frames, reads, outcome, data, out, widgets>>

\* fetch_all_with_params returns; a non-empty result becomes a tagged frame.
read_stock ==
    /\ pc = "fetching"
    /\ idx <= Len(selected_stocks)
    /\ get_stock(selected_stocks[idx]) # None
    /\ LET yahoo_symbol == selected_stocks[idx]
           stock == get_stock(yahoo_symbol)[1]
           results == SelectRows(store, fields, stock.id,
                                 params.start_date, params.end_date)
       IN  /\ reads' = Append(reads, [pos |-> idx, stock_id |-> stock.id, ok |-> TRUE])
           /\ data_frames' =
                IF results # <<>>
                THEN Append(data_frames, tagged_frame(results, fields, yahoo_symbol))
                ELSE data_frames
    /\ idx' = idx + 1
    /\ UNCHANGED <<store, params, pc, fields, outcome, data, out, widgets>>

\* A failed read that is swallowed and attempted again.
read_error_retry ==
    /\ pc = "fetching"
    /\ idx <= Len(selected_stocks)
    /\ get_stock(selected_stocks[idx]) # None
    /\ Len(reads) <= MaxSel
    /\ LET stock == get_stock(selected_stocks[idx])[1]
       IN  reads' = Append(reads, [pos |-> idx, stock_id |-> stock.id, ok |-> FALSE])
    /\ UNCHANGED <<store, params, pc, fields, idx, data_frames, outcome, data, out, widgets>>

\* fetch_all_with_params raises: the except clause logs and re-raises, and
\* the assignment to self.data in analyse_portfolio is not reached.
read_error ==
    /\ pc = "fetching"
    /\ idx <= Len(selected_stocks)
    /\ get_stock(selected_stocks[idx]) # None
    /\ LET stock == get_stock(selected_stocks[idx])[1]
       IN  reads' = Append(reads, [pos |-> idx, stock_id |-> stock.id, ok |-> FALSE])
    /\ outcome' = Raised
    /\ pc' = "done"
    /\ UNCHANGED <<store, params, fields, idx, data_frames, data, out, widgets>>

\* The loop is over: the frame is returned and analyse_portfolio keeps it.
get_portfolio_data_return ==
    /\ pc = "fetching"
    /\ idx > Len(selected_stocks)
    /\ outcome' = Returned(returned_frame(data_frames))
    /\ data' = Some(returned_frame(data_frames))
    /\ pc' = "done"
    /\ UNCHANGED <<store, params, fields, idx, data_frames, reads, out, widgets>>

-----------------------------------------------------------------------------
(* The fetch: one call of get_portfolio_data over a drawn table *)

\* Metric columns of the rows of the fetch: market_value tells rows apart.
FetchCols(stock_id, date) ==
    [c \in MetricColumns |-> IF c = "market_value" THEN 10 * stock_id + date ELSE Zero(c)]

TableOf(keys) == {DbRow(k[1], k[2], FetchCols(k[1], k[2])) : k \in keys}

Absent == [kind |-> "absent", val |-> <<>>]
Single(name) == [kind |-> "single", val |-> <<name>>]
List(names) == [kind |-> "list", val |-> names]

BaseParams ==
    [study_type |-> "market_value", metric |-> Absent, metrics |-> Absent,
     selected_stocks |-> <<>>, start_date |-> 1, end_date |-> MaxDate,
     view_type |-> "individual_stocks", chart_type |-> "line_chart",
     calculation_type |-> "cumulative", time_period |-> "cumulative",
     zero_at_start |-> FALSE]

StudyTypes == KnownStudyTypes \cup {"distribution", "unknown"}
ExtraNames == {"market_value", "close_price"}
ExtraLists == SeqsUpTo(ExtraNames, 2)

\* Calls that vary the field list, over one selection.
FieldCalls ==
    {[BaseParams EXCEPT !.study_type = st, !.metric = m, !.metrics = ms,
                        !.selected_stocks = <<"A">>] :
        st \in StudyTypes,
        m \in {Absent} \cup {Single(n) : n \in ExtraNames} \cup {List(l) : l \in ExtraLists},
        ms \in {Absent} \cup {List(l) : l \in ExtraLists}}

\* The date ranges of the calls: every range and one with the ends swapped.
DateRanges == {r \in Dates \X Dates : r[1] <= r[2]} \cup {<<MaxDate, 1>>}

\* Calls that vary the selection and the date range.
FetchCalls ==
    {[BaseParams EXCEPT !.study_type = "profitability", !.selected_stocks = sel,
                        !.start_date = r[1], !.end_date = r[2]] :
        sel \in SeqsUpTo(Symbols, MaxSel), r \in DateRanges}

FullTable == TableOf(StockIds \X Dates)

Init ==
    /\ store \in {TableOf(keys) : keys \in SUBSET (StockIds \X Dates)}
    /\ params = BaseParams
    /\ pc = "idle"
    /\ fields = <<>>
    /\ idx = 1
    /\ data_frames = <<>>
    /\ reads = <<>>
    /\ outcome = Pending
    /\ data = None
    /\ out = None
    /\ NoWidgets

Next ==
    \/ \E p \in FetchCalls : get_portfolio_data_begin(p)
    \/ \E p \in FieldCalls : store = FullTable /\ get_portfolio_data_begin(p)
    \/ skip_symbol
    \/ read_stock
    \/ read_error
    \/ get_portfolio_data_return

Spec == Init /\ [][Next]_vars

-----------------------------------------------------------------------------
(* Wide frames: unstack, asfreq('D'), ffill, sum(axis=1) *)

\* The order of the stock symbols (unstack and sorted() order the columns).
SymbolOrder == <<"A", "B", "C", "X">>
RankOf(sym) == CHOOSE i \in 1..Len(SymbolOrder) : SymbolOrder[i] = sym

RECURSIVE sorted_symbols(_)
sorted_symbols(S) ==
    IF S = {} THEN <<>>
    ELSE LET first == CHOOSE x \in S : \A y \in S : RankOf(x) <= RankOf(y)
         IN  <<first>> \o sorted_symbols(S \ {first})

RECURSIVE sorted_dates(_)
sorted_dates(S) ==
    IF S = {} THEN <<>>
    ELSE LET first == CHOOSE x \in S : \A y \in S : x <= y
         IN  <<first>> \o sorted_dates(S \ {first})

\* set_index(['date', 'stock']) followed by unstack() raises ValueError when
\* two rows share (date, stock).
has_duplicate_index(rows) ==
    \E i, j \in 1..Len(rows) :
        i # j /\ rows[i].date = rows[j].date /\ rows[i].stock = rows[j].stock

\* rows.set_index(['date', 'stock'])[column].unstack(): one row per date of
\* the frame, one column per stock, NaN where the stock has no row that date.
unstack(rows, column) ==
    LET dates == sorted_dates({rows[i].date : i \in 1..Len(rows)})
        stocks == sorted_symbols({rows[i].stock : i \in 1..Len(rows)})
    IN  [index |-> dates,
         columns |-> stocks,
         val |-> [k \in 1..Len(dates) |->
                    [s \in Range(stocks) |->
                        IF \E i \in 1..Len(rows) :
                              rows[i].date = dates[k] /\ rows[i].stock = s
                        THEN LET i == CHOOSE i \in 1..Len(rows) :
                                        rows[i].date = dates[k] /\ rows[i].stock = s
                             IN  Some(rows[i][column])
                        ELSE None]]]

\* wide.asfreq('D'): every calendar day from the first to the last index
\* date; the days that were not in the index hold NaN.
asfreq_D(wide) ==
    LET lo == wide.index[1]
        hi == wide.index[Len(wide.index)]
    IN  [index |-> [k \in 1..(hi - lo + 1) |-> lo + k - 1],
         columns |-> wide.columns,
         val |-> [k \in 1..(hi - lo + 1) |->
                    IF lo + k - 1 \in Range(wide.index)
                    THEN wide.val[PositionOf(wide.index, lo + k - 1)]
                    ELSE [s \in Range(wide.columns) |-> None]]]

\* The rows 1..k of wide.ffill(): a NaN takes the value of the row above.
RECURSIVE ffill_rows(_, _)
ffill_rows(wide, k) ==
    IF k = 0 THEN <<>>
    ELSE LET above == ffill_rows(wide, k - 1)
         IN  Append(above,
                    [s \in Range(wide.columns) |->
                        IF wide.val[k][s] = None /\ k > 1
                        THEN above[k - 1][s]
                        ELSE wide.val[k][s]])

\* The frame left as it is, nothing filled.
ffill_nothing(wide) == wide

ffill(wide) == [wide EXCEPT !.val = ffill_rows(wide, Len(wide.index))]

\* wide.fillna(0)
fillna_0(wide) ==
    [wide EXCEPT !.val = [k \in 1..Len(wide.index) |->
                            [s \in Range(wide.columns) |->
                                IF wide.val[k][s] = None THEN Some(0) ELSE wide.val[k][s]]]]

\* The sum of the values of a row over the columns, NaN skipped (pandas sum).
RECURSIVE sum_skipna(_, _)
sum_skipna(row, columns) ==
    IF columns = <<>> THEN 0
    ELSE (IF row[Head(columns)] = None THEN 0 ELSE row[Head(columns)][1])
            + sum_skipna(row, Tail(columns))

\* wide.sum(axis=1)
sum_axis_1(wide) == [k \in 1..Len(wide.index) |-> sum_skipna(wide.val[k], wide.columns)]

\* One column of a wide frame, as the sequence of its values.
column_of(wide, s) == [k \in 1..Len(wide.index) |-> wide.val[k][s]]

\* Keeps the elements of a sequence that are in a set.
RECURSIVE select_in(_, _)
select_in(seq, S) ==
    IF seq = <<>> THEN <<>>
    ELSE (IF Head(seq) \in S THEN <<Head(seq)>> ELSE <<>>) \o select_in(Tail(seq), S)

-----------------------------------------------------------------------------
(* plot_market_value *)

\* self.data of a call that fetched rows: analyse_portfolio returns before
\* plotting when the frame is empty.
has_rows ==
    /\ pc = "done"
    /\ outcome.kind = "frame"
    /\ data # None
    /\ data[1].rows # <<>>

\* The exception of a plot method reaches the except clause of analyse_portfolio.
PlotError == [kind |-> "error", aligned |-> None, lines |-> <<>>, stack |-> <<>>]

\* The alignment with asfreq('D') left out.
aligned_market_value_without_asfreq(rows) == ffill(unstack(rows, "market_value"))

\* plot_data['market_value'].unstack().asfreq('D').ffill()
aligned_market_value(rows) == ffill(asfreq_D(unstack(rows, "market_value")))

\* The lines of the individual view: one per selected stock that is a column.
market_value_lines(aligned, sel) ==
    LET shown == select_in(sel, Range(aligned.columns))
    IN  [n \in 1..Len(shown) |->
            [label |-> shown[n], x |-> aligned.index, y |-> column_of(aligned, shown[n])]]

\* The line of the portfolio total: the sum of the forward-filled values.
market_value_total(aligned) ==
    <<[label |-> "Total Portfolio", x |-> aligned.index,
       y |-> [k \in 1..Len(aligned.index) |-> Some(sum_axis_1(aligned)[k])]]>>

\* The layers of the stacked area: NaN as 0, columns sorted.
market_value_stack(aligned) ==
    LET filled == fillna_0(aligned)
        cols == sorted_symbols(Range(filled.columns))
    IN  [n \in 1..Len(cols) |->
            [label |-> cols[n], x |-> filled.index, y |-> column_of(filled, cols[n])]]

\* What plot_market_value draws for self.data, or the exception it raises.
market_value_result(rows, p) ==
    IF has_duplicate_index(rows)
    THEN PlotError
    ELSE LET aligned == aligned_market_value(rows)
         IN  [kind |-> "market_value",
              aligned |-> Some(aligned),
              lines |->
                 IF p.view_type = "individual_stocks"
                 THEN market_value_lines(aligned, p.selected_stocks)
                 ELSE IF p.chart_type = "line_chart"
                 THEN market_value_total(aligned)
                 ELSE <<>>,
              stack |->
                 IF /\ p.view_type # "individual_stocks"
                    /\ p.chart_type = "stacked_area"
                 THEN market_value_stack(aligned)
                 ELSE <<>>]

plot_market_value ==
    /\ has_rows
    /\ params.study_type = "market_value"
    /\ out' = Some(market_value_result(data[1].rows, params))
    /\ pc' = "plotted"
    /\ UNCHANGED <<store, params, fields, idx, data_frames, reads, outcome, data, widgets>>

-----------------------------------------------------------------------------
(* The market value study: a fetch over a drawn table, then the plot *)

MaxDay == 3       \* the tables of the studies hold days 1..MaxDay
Days == 1..MaxDay

\* The tables that hold, for each key (stock_id, date) of `keys`, no row or
\* one row whose metric columns are drawn from choice[key].
RECURSIVE TablesOver(_, _)
TablesOver(keys, choice) ==
    IF keys = {} THEN {{}}
    ELSE LET k == CHOOSE k \in keys : TRUE
         IN  {t \cup r : t \in TablesOver(keys \ {k}, choice),
                         r \in {{}} \cup {{DbRow(k[1], k[2], c)} : c \in choice[k]}}

\* Market values of the rows: stock A is worth 100 or 110, stock B 50.
MarketValueCols(k) ==
    {[c \in MetricColumns |-> IF c = "market_value" THEN mv ELSE Zero(c)] :
        mv \in IF k[1] = 1 THEN {100, 110} ELSE {50}}

MarketValueTables ==
    TablesOver(StockIds \X Days, [k \in StockIds \X Days |-> MarketValueCols(k)])

\* The selections of the studies.
StudySelections == {<<"A", "B">>, <<"B", "A">>, <<"A">>, <<"X", "B">>, <<"A", "A">>}

MarketValueCalls ==
    {[BaseParams EXCEPT !.study_type = "market_value", !.selected_stocks = sel,
                        !.end_date = MaxDay,
                        !.view_type = vc[1], !.chart_type = vc[2]] :
        sel \in StudySelections,
        vc \in {<<"individual_stocks", "line_chart">>, <<"portfolio_total", "line_chart">>,
                <<"portfolio_total", "stacked_area">>}}

InitMarketValue ==
    /\ store \in MarketValueTables
    /\ params = BaseParams
    /\ pc = "idle"
    /\ fields = <<>>
    /\ idx = 1
    /\ data_frames = <<>>
    /\ reads = <<>>
    /\ outcome = Pending
    /\ data = None
    /\ out = None
    /\ NoWidgets

NextMarketValue ==
    \/ \E p \in MarketValueCalls : get_portfolio_data_begin(p)
    \/ skip_symbol
    \/ read_stock
    \/ get_portfolio_data_return
    \/ plot_market_value

SpecMarketValue == InitMarketValue /\ [][NextMarketValue]_vars

-----------------------------------------------------------------------------
(* The state a successful fetch ends in *)

\* data_frames and reads once the loop has handled the first i entries of
\* selected_stocks, every read succeeding.
RECURSIVE loop_state(_, _, _)
loop_state(table, p, i) ==
    IF i = 0 THEN [data_frames |-> <<>>, reads |-> <<>>]
    ELSE LET before == loop_state(table, p, i - 1)
             yahoo_symbol == p.selected_stocks[i]
         IN  IF get_stock(yahoo_symbol) = None THEN before
             ELSE LET stock == get_stock(yahoo_symbol)[1]
                      results == SelectRows(table, build_fields(p), stock.id,
                                            p.start_date, p.end_date)
                  IN  [data_frames |->
                          IF results # <<>>
                          THEN Append(before.data_frames,
                                      tagged_frame(results, build_fields(p), yahoo_symbol))
                          ELSE before.data_frames,
                       reads |-> Append(before.reads,
                                        [pos |-> i, stock_id |-> stock.id, ok |-> TRUE])]

fetched_frame(table, p) ==
    returned_frame(loop_state(table, p, Len(p.selected_stocks)).data_frames)

\* analyse_portfolio has fetched the frame of call p over `table` and kept it.
AfterFetch(table, p) ==
    LET last == loop_state(table, p, Len(p.selected_stocks))
        frame == returned_frame(last.data_frames)
    IN  /\ store = table
        /\ params = p
        /\ pc = "done"
        /\ fields = build_fields(p)
        /\ idx = Len(p.selected_stocks) + 1
        /\ data_frames = last.data_frames
        /\ reads = last.reads
        /\ outcome = Returned(frame)
        /\ data = Some(frame)
        /\ out = None
        /\ NoWidgets

\* The sum of the values of a function over the set S of its arguments.
RECURSIVE SumOver(_, _)
SumOver(S, f) ==
    IF S = {} THEN 0
    ELSE LET x == CHOOSE x \in S : TRUE IN f[x] + SumOver(S \ {x}, f)

-----------------------------------------------------------------------------
(* Quotients *)

\* A float that is a quotient of integers, kept exact.  Division by zero
\* gives inf or NaN in pandas: both are the one value NotFinite, and stay
\* NotFinite under subtraction.
Q(v) == [num |-> v, den |-> 1]
NotFinite == [num |-> 0, den |-> 0]
IsFinite(x) == x.den # 0
Abs(n) == IF n < 0 THEN 0 - n ELSE n
RECURSIVE Gcd(_, _)
Gcd(a, b) == IF b = 0 THEN a ELSE Gcd(b, a % b)
\* The quotient n / d in lowest terms with a positive denominator.
Lowest(n, d) ==
    LET g == Gcd(Abs(n), Abs(d))
        sign == IF d < 0 THEN 0 - 1 ELSE 1
    IN  [num |-> sign * (n \div g), den |-> sign * (d \div g)]
Div(a, b) == IF b = 0 THEN NotFinite ELSE Lowest(a, b)
Sub(x, y) ==
    IF x.den = 0 \/ y.den = 0 THEN NotFinite
    ELSE Lowest(x.num * y.den - y.num * x.den, x.den * y.den)
EqQ(x, y) == IsFinite(x) /\ IsFinite(y) /\ x.num * y.den = y.num * x.den

-----------------------------------------------------------------------------
(* plot_profitability *)

\* The rows of a frame that satisfy self.data['stock'] == stock, in frame order.
RECURSIVE rows_of_stock(_, _)
rows_of_stock(rows, stock) ==
    IF rows = <<>> THEN <<>>
    ELSE (IF Head(rows).stock = stock THEN <<Head(rows)>> ELSE <<>>)
            \o rows_of_stock(Tail(rows), stock)

\* groupby('date')[column].sum(): per date of the frame, in date order, the
\* sum of the column over the rows of that date.
RECURSIVE sum_rows(_, _)
sum_rows(rows, column) ==
    IF rows = <<>> THEN 0 ELSE Head(rows)[column] + sum_rows(Tail(rows), column)

RECURSIVE rows_of_date(_, _)
rows_of_date(rows, date) ==
    IF rows = <<>> THEN <<>>
    ELSE (IF Head(rows).date = date THEN <<Head(rows)>> ELSE <<>>)
            \o rows_of_date(Tail(rows), date)

groupby_date_sum(rows, column) ==
    LET dates == sorted_dates({rows[i].date : i \in 1..Len(rows)})
    IN  [index |-> dates,
         val |-> [k \in 1..Len(dates) |-> sum_rows(rows_of_date(rows, dates[k]), column)]]

\* The metric of a chart type and time period.
profitability_metric(chart_type, time_period) ==
    IF chart_type = "dollar_value"
    THEN (IF time_period = "daily" THEN "daily_pl" ELSE "total_return")
    ELSE IF chart_type = "percentage"
    THEN (IF time_period = "daily" THEN "daily_pl_pct" ELSE "total_return_pct")
    ELSE "cumulative_return_pct"

\* y_values - y_values.iloc[0]
zeroed(y) == [k \in 1..Len(y) |-> Sub(y[k], y[1])]

\* The lines of the individual view drawn for the first n selected stocks;
\* y_values.iloc[0] raises IndexError for a stock with no row.
RECURSIVE individual_lines(_, _, _)
individual_lines(rows, p, n) ==
    IF n = 0 THEN [raised |-> FALSE, lines |-> <<>>]
    ELSE LET before == individual_lines(rows, p, n - 1)
             stock == p.selected_stocks[n]
             stock_data == rows_of_stock(rows, stock)
             metric == profitability_metric(p.chart_type, p.calculation_type)
             y_values == [k \in 1..Len(stock_data) |-> Q(stock_data[k][metric])]
             zero == p.zero_at_start /\ p.calculation_type = "cumulative"
         IN  IF before.raised THEN before
             ELSE IF zero /\ y_values = <<>>
             THEN [raised |-> TRUE, lines |-> before.lines]
             ELSE [raised |-> FALSE,
                   lines |-> Append(before.lines,
                      [label |-> stock,
                       x |-> [k \in 1..Len(stock_data) |-> stock_data[k].date],
                       y |-> IF zero THEN zeroed(y_values) ELSE y_values])]

\* plot_data[column].unstack().asfreq('D').ffill().sum(axis=1)
aligned_sum(rows, column) ==
    LET wide == ffill(asfreq_D(unstack(rows, column)))
    IN  [index |-> wide.index, val |-> sum_axis_1(wide)]

\* The line of the portfolio total, when the branch draws one.
portfolio_total_line(x, y, zero) ==
    <<[label |-> "Portfolio Total", x |-> x, y |-> IF zero THEN zeroed(y) ELSE y]>>

total_dollar_cumulative(rows, p) ==
    LET total == aligned_sum(rows, profitability_metric(p.chart_type, p.calculation_type))
    IN  portfolio_total_line(total.index,
                             [k \in 1..Len(total.index) |-> Q(total.val[k])],
                             p.zero_at_start)

total_percentage_daily(rows) ==
    LET pl == groupby_date_sum(rows, "daily_pl")
        mv == groupby_date_sum(rows, "market_value")
    IN  portfolio_total_line(pl.index,
                             [k \in 1..Len(pl.index) |-> Div(100 * pl.val[k], mv.val[k])],
                             FALSE)

total_percentage_cumulative(rows, p) ==
    LET portfolio_total_return == aligned_sum(rows, "total_return")
        portfolio_total_value == aligned_sum(rows, "market_value")
    IN  portfolio_total_line(portfolio_total_return.index,
                             [k \in 1..Len(portfolio_total_return.index) |->
                                 Div(100 * portfolio_total_return.val[k],
                                     portfolio_total_value.val[k])],
                             p.zero_at_start)

ProfitabilityPlot(lines) ==
    [kind |-> "profitability", aligned |-> None, lines |-> lines, stack |-> <<>>]
ProfitabilityError(lines) ==
    [kind |-> "error", aligned |-> None, lines |-> lines, stack |-> <<>>]

profitability_result(rows, p) ==
    IF p.view_type = "individual_stocks"
    THEN LET r == individual_lines(rows, p, Len(p.selected_stocks))
         IN  IF r.raised THEN ProfitabilityError(r.lines) ELSE ProfitabilityPlot(r.lines)
    ELSE IF p.calculation_type = "cumulative" /\ p.chart_type = "dollar_value"
    THEN (IF has_duplicate_index(rows) THEN ProfitabilityError(<<>>)
          ELSE ProfitabilityPlot(total_dollar_cumulative(rows, p)))
    ELSE IF p.chart_type = "percentage"
    THEN (IF p.calculation_type = "daily"
          THEN ProfitabilityPlot(total_percentage_daily(rows))
          ELSE IF has_duplicate_index(rows) THEN ProfitabilityError(<<>>)
          ELSE ProfitabilityPlot(total_percentage_cumulative(rows, p)))
    ELSE ProfitabilityPlot(<<>>)

plot_profitability ==
    /\ has_rows
    /\ params.study_type = "profitability"
    /\ out' = Some(profitability_result(data[1].rows, params))
    /\ pc' = "plotted"
    /\ UNCHANGED <<store, params, fields, idx, data_frames, reads, outcome, data, widgets>>

-----------------------------------------------------------------------------
(* calculate_portfolio_total_metrics and calculate_deltas *)

\* data.groupby('date')['total_return'].sum().reset_index()
total_return_by_date(rows) ==
    LET g == groupby_date_sum(rows, "total_return")
    IN  [columns |-> <<"date", "total_return">>,
         rows |-> [k \in 1..Len(g.index) |->
                     [date |-> g.index[k], total_return |-> g.val[k]]]]

\* The frame of the sums of total_return and market_value per date, with
\* value = total_return / market_value * 100.
weighted_return_by_date(rows) ==
    LET tr == groupby_date_sum(rows, "total_return")
        mv == groupby_date_sum(rows, "market_value")
    IN  [columns |-> <<"date", "total_return", "market_value", "value">>,
         rows |-> [k \in 1..Len(tr.index) |->
                     [date |-> tr.index[k], total_return |-> tr.val[k],
                      market_value |-> mv.val[k],
                      value |-> Some(Div(100 * tr.val[k], mv.val[k]))]]]

portfolio_total_metrics(rows, p) ==
    IF p.chart_type = "dollar_value"
    THEN total_return_by_date(rows)
    ELSE weighted_return_by_date(rows)

calculate_portfolio_total_metrics ==
    /\ has_rows
    /\ params.study_type = "profitability"
    /\ out' = Some([kind |-> "total_metrics",
                    frame |-> portfolio_total_metrics(data[1].rows, params)])
    /\ pc' = "totalled"
    /\ UNCHANGED <<store, params, fields, idx, data_frames, reads, outcome, data, widgets>>

\* params['metric'].replace('_delta', '')
replace_delta(metric) ==
    CASE metric = "total_return_delta" -> "total_return"
      [] metric = "daily_pl_delta" -> "daily_pl"
      [] OTHER -> metric

\* The position of the row before row i among the rows of the same stock, 0
\* when row i is the first of its stock.
previous_of_stock(rows, i) ==
    LET earlier == {j \in 1..(i - 1) : rows[j].stock = rows[i].stock}
    IN  IF earlier = {} THEN 0 ELSE CHOOSE j \in earlier : \A h \in earlier : h <= j

\* A row with the column `value` set (added when the frame has none).
with_value(row, v) ==
    [c \in DOMAIN row \cup {"value"} |-> IF c = "value" THEN v ELSE row[c]]

\* for stock in data['stock'].unique():
\*     data.loc[mask, 'value'] = data.loc[mask, base_col].diff()
deltas_per_stock(frame, base_col) ==
    [columns |-> IF "value" \in Range(frame.columns) THEN frame.columns
                 ELSE Append(frame.columns, "value"),
     rows |-> [i \in 1..Len(frame.rows) |->
                 LET j == previous_of_stock(frame.rows, i)
                 IN  with_value(frame.rows[i],
                                IF j = 0 THEN None
                                ELSE Some(Q(frame.rows[i][base_col]
                                              - frame.rows[j][base_col])))]]

\* data['value'] = data['value'].diff()
deltas_of_value(frame) ==
    [columns |-> frame.columns,
     rows |-> [i \in 1..Len(frame.rows) |->
                 with_value(frame.rows[i],
                            IF i = 1 \/ frame.rows[i].value = None
                                     \/ frame.rows[i - 1].value = None
                            THEN None
                            ELSE Some(Sub(frame.rows[i].value[1],
                                          frame.rows[i - 1].value[1])))]]

\* A column the frame does not have raises KeyError.
DeltasError(q) == [kind |-> "error", frame |-> EmptyFrame, params |-> q]

\* calculate_deltas(self.data, q) in the individual view: the frame is
\* changed in place and returned.
calculate_deltas_individual(q) ==
    /\ has_rows
    /\ params.study_type = "profitability"
    /\ q.view_type = "individual_stocks"
    /\ LET base_col == replace_delta(q.metric)
       IN  IF base_col \in Range(data[1].columns)
           THEN /\ data' = Some(deltas_per_stock(data[1], base_col))
                /\ out' = Some([kind |-> "deltas", frame |-> deltas_per_stock(data[1], base_col),
                                 params |-> q])
           ELSE /\ data' = data
                /\ out' = Some(DeltasError(q))
    /\ pc' = "deltas"
    /\ UNCHANGED <<store, params, fields, idx, data_frames, reads, outcome, widgets>>

\* calculate_deltas(aggregated, q) in the portfolio view, on the frame that
\* calculate_portfolio_total_metrics returned.
calculate_deltas_total(q) ==
    /\ pc = "totalled"
    /\ q.view_type # "individual_stocks"
    /\ out' = IF "value" \in Range(out[1].frame.columns)
              THEN Some([kind |-> "deltas", frame |-> deltas_of_value(out[1].frame),
                         params |-> q])
              ELSE Some(DeltasError(q))
    /\ pc' = "deltas"
    /\ UNCHANGED <<store, params, fields, idx, data_frames, reads, outcome, data, widgets>>

DeltaParams ==
    [view_type : {"individual_stocks", "portfolio_total"},
     metric : {"total_return_delta", "daily_pl_delta"}]

-----------------------------------------------------------------------------
(* The profitability study: the plot over the fetched frame of a drawn table *)

\* The profitability columns of a row.  Stock A: worth 100, or 0 on day 1;
\* total return 10, or 5 more each day after day 1; daily P&L 5.  Stock B:
\* worth 50, total return 20, daily P&L 1.  The percentage columns are other
\* numbers of the row.
ProfitRow(market_value, total_return, daily_pl) ==
    [c \in MetricColumns |->
        CASE c = "market_value" -> market_value
          [] c = "total_return" -> total_return
          [] c = "daily_pl" -> daily_pl
          [] c = "daily_pl_pct" -> 2 * daily_pl
          [] c = "total_return_pct" -> 3 * total_return
          [] c = "cumulative_return_pct" -> total_return + 1
          [] OTHER -> Zero(c)]

ProfitCols(k) ==
    IF k[1] = 1
    THEN {ProfitRow(mv, tr, 5) :
            mv \in (IF k[2] = 1 THEN {0, 100} ELSE {100}),
            tr \in (IF k[2] = 1 THEN {10} ELSE {10, 10 + 5 * (k[2] - 1)})}
    ELSE {ProfitRow(50, 20, 1)}

ProfitTables ==
    TablesOver(StockIds \X Days, [k \in StockIds \X Days |-> ProfitCols(k)])

ProfitSelections == {<<"A", "B">>, <<"A", "A">>}

ProfitCalls ==
    {[BaseParams EXCEPT !.study_type = "profitability", !.selected_stocks = sel,
                        !.end_date = MaxDay, !.view_type = vt, !.chart_type = ct,
                        !.calculation_type = calc, !.time_period = calc,
                        !.zero_at_start = z] :
        sel \in ProfitSelections,
        vt \in {"individual_stocks", "portfolio_total"},
        ct \in {"dollar_value", "percentage", "aggregated_percentage"},
        calc \in {"daily", "cumulative"},
        z \in BOOLEAN}

InitProfitability ==
    \E table \in ProfitTables : \E p \in ProfitCalls : AfterFetch(table, p)

NextProfitability ==
    \/ plot_profitability
    \/ calculate_portfolio_total_metrics

SpecProfitability == InitProfitability /\ [][NextProfitability]_vars

\* The calls of the delta study: the chart type and the selection vary.
DeltaCalls ==
    {[BaseParams EXCEPT !.study_type = "profitability", !.selected_stocks = sel,
                        !.end_date = MaxDay, !.view_type = vt, !.chart_type = ct] :
        sel \in ProfitSelections,
        vt \in {"individual_stocks", "portfolio_total"},
        ct \in {"dollar_value", "percentage"}}

InitDeltas ==
    \E table \in ProfitTables : \E p \in DeltaCalls : AfterFetch(table, p)

NextDeltas ==
    \/ calculate_portfolio_total_metrics
    \/ \E q \in DeltaParams : calculate_deltas_individual(q)
    \/ \E q \in DeltaParams : calculate_deltas_total(q)

SpecDeltas == InitDeltas /\ [][NextDeltas]_vars

-----------------------------------------------------------------------------
(* plot_dividends *)

\* a * b of two float cells: NaN when either is NaN.
times(a, b) == IF a = None \/ b = None THEN None ELSE Some(a[1] * b[1])

\* The rows with the columns drp_value and drp_value_total added.
with_drp_values(rows) ==
    [i \in 1..Len(rows) |->
        [c \in DOMAIN rows[i] \cup {"drp_value", "drp_value_total"} |->
            CASE c = "drp_value" -> times(rows[i].drp_share, rows[i].close_price)
              [] c = "drp_value_total" -> times(rows[i].drp_shares_total, rows[i].close_price)
              [] OTHER -> rows[i][c]]]

\* unstack of a nullable column: the cell is the value of the row, which may
\* itself be NaN.
unstack_nullable(rows, column) ==
    LET wide == unstack(rows, column)
    IN  [wide EXCEPT !.val = [k \in 1..Len(wide.index) |->
                                [s \in Range(wide.columns) |->
                                    IF wide.val[k][s] = None THEN None
                                    ELSE wide.val[k][s][1]]]]

\* a + b of two frames with the same index and columns: NaN where either is.
add_frames(a, b) ==
    [a EXCEPT !.val = [k \in 1..Len(a.index) |->
                         [s \in Range(a.columns) |->
                             IF a.val[k][s] = None \/ b.val[k][s] = None THEN None
                             ELSE Some(a.val[k][s][1] + b.val[k][s][1])]]]

\* The frame left as it is, no NaN replaced.
fillna_nothing(wide) == wide

\* cash_data.fillna(0) and drp_data.fillna(0) of the combined view.
dividend_fillna(wide) == fillna_0(wide)

\* The column a chart type and a time period plot.
dividend_metric(chart_type, time_period) ==
    IF chart_type = "cash"
    THEN (IF time_period = "cumulative" THEN "cash_dividends_total" ELSE "cash_dividend")
    ELSE (IF time_period = "cumulative" THEN "drp_value_total" ELSE "drp_value")

\* total_dividend_data before the cumulative alignment.
total_dividend_data(rows, time_period) ==
    LET valued == with_drp_values(rows)
        cash_data == unstack_nullable(valued, dividend_metric("cash", time_period))
        drp_data == unstack_nullable(valued, dividend_metric("drp", time_period))
    IN  add_frames(dividend_fillna(cash_data), dividend_fillna(drp_data))

\* The frame that is plotted: plot_data, or total_dividend_data in the
\* combined view, made daily and forward filled in the cumulative view.
dividend_plot_data(rows, p) ==
    LET wide == IF p.chart_type = "combined"
                THEN total_dividend_data(rows, p.time_period)
                ELSE IF p.chart_type = "drp"
                THEN unstack_nullable(with_drp_values(rows),
                                      dividend_metric("drp", p.time_period))
                ELSE unstack_nullable(rows, dividend_metric("cash", p.time_period))
    IN  IF p.time_period = "cumulative" THEN ffill(asfreq_D(wide)) ELSE wide

\* One line per column of the frame, in column order.
dividend_lines(wide) ==
    [n \in 1..Len(wide.columns) |->
        [label |-> wide.columns[n], x |-> wide.index, y |-> column_of(wide, wide.columns[n])]]

\* The line of the portfolio total.
dividend_total(wide, chart_type) ==
    <<[label |-> IF chart_type = "combined" THEN "Total Dividends" ELSE "Portfolio Total",
       x |-> wide.index,
       y |-> [k \in 1..Len(wide.index) |-> Some(sum_axis_1(wide)[k])]]>>

\* What plot_dividends draws for self.data, or the exception it raises:
\* unstack raises ValueError on a duplicate (date, stock), and for another
\* chart type the combined branch finds no drp_value column (KeyError).
dividends_result(rows, p) ==
    IF has_duplicate_index(rows) \/ p.chart_type \notin {"cash", "drp", "combined"}
    THEN PlotError
    ELSE LET wide == dividend_plot_data(rows, p)
         IN  [kind |-> "dividends",
              aligned |-> Some(wide),
              lines |-> IF p.view_type = "individual_stocks"
                        THEN dividend_lines(wide)
                        ELSE dividend_total(wide, p.chart_type),
              stack |-> <<>>]

plot_dividends ==
    /\ has_rows
    /\ params.study_type = "dividend_performance"
    /\ out' = Some(dividends_result(data[1].rows, params))
    /\ pc' = "plotted"
    /\ UNCHANGED <<store, params, fields, idx, data_frames, reads, outcome, data, widgets>>

-----------------------------------------------------------------------------
(* The dividend study *)

\* A row of the dividend study: the running totals are 10 and 1 above the
\* amounts of the day.
DividendRow(cash_dividend, drp_share, close_price) ==
    [c \in MetricColumns |->
        CASE c = "cash_dividend" -> cash_dividend
          [] c = "cash_dividends_total" ->
                IF cash_dividend = None THEN None ELSE Some(cash_dividend[1] + 10)
          [] c = "drp_share" -> Some(drp_share)
          [] c = "drp_shares_total" -> Some(drp_share + 1)
          [] c = "close_price" -> close_price
          [] OTHER -> 0]

\* Stock A pays 5 in cash or reinvests one share at 2 a day; on day 1 its
\* close price or its cash dividend may be NULL.  Stock B pays 1 and
\* reinvests one share at 3.
DividendCols(k) ==
    IF k[1] = 1
    THEN {DividendRow(Some(5), 0, Some(2)), DividendRow(Some(0), 1, Some(2))}
            \cup (IF k[2] = 1
                  THEN {DividendRow(Some(5), 1, None), DividendRow(None, 1, Some(2))}
                  ELSE {})
    ELSE {DividendRow(Some(1), 1, Some(3))}

DividendTables ==
    TablesOver(StockIds \X Days, [k \in StockIds \X Days |-> DividendCols(k)])

\* The calls of the dividend study: the combined chart in every view and
\* period, the cash and the DRP chart once each, and a selection that names
\* a stock twice.
DividendCall(sel, vt, ct, tp) ==
    [BaseParams EXCEPT !.study_type = "dividend_performance", !.selected_stocks = sel,
                       !.end_date = MaxDay, !.view_type = vt, !.chart_type = ct,
                       !.calculation_type = tp, !.time_period = tp]

DividendCalls ==
    {DividendCall(<<"A", "B">>, vt, "combined", tp) :
        vt \in {"individual_stocks", "portfolio_total"}, tp \in {"daily", "cumulative"}}
    \cup {DividendCall(<<"A", "B">>, "individual_stocks", "cash", "daily"),
          DividendCall(<<"A", "B">>, "portfolio_total", "drp", "cumulative"),
          DividendCall(<<"A", "A">>, "individual_stocks", "combined", "cumulative")}

InitDividends ==
    \E table \in DividendTables : \E p \in DividendCalls : AfterFetch(table, p)

NextDividends == plot_dividends

SpecDividends == InitDividends /\ [][NextDividends]_vars

-----------------------------------------------------------------------------
(* update_statistics_table *)

has_column(frame, c) == c \in Range(frame.columns)

RECURSIVE sum_seq(_)
sum_seq(s) == IF s = <<>> THEN 0 ELSE Head(s) + sum_seq(Tail(s))

\* The values of a sequence of float cells that are not NaN, in order.
RECURSIVE dropna(_)
dropna(s) ==
    IF s = <<>> THEN <<>>
    ELSE (IF Head(s) = None THEN <<>> ELSE <<Head(s)[1]>>) \o dropna(Tail(s))

max_of(s) == CHOOSE v \in Range(s) : \A w \in Range(s) : w <= v
min_of(s) == CHOOSE v \in Range(s) : \A w \in Range(s) : v <= w

\* Series.max(), Series.min() and Series.mean() skip NaN and are NaN for a
\* series without a value.
series_max(s) == IF s = <<>> THEN NotFinite ELSE Q(max_of(s))
series_min(s) == IF s = <<>> THEN NotFinite ELSE Q(min_of(s))
series_mean(s) == Div(sum_seq(s), Len(s))

\* The square of Series.std(): the sample variance, NaN below two values.
series_variance(s) ==
    LET n == Len(s)
    IN  Div(n * sum_seq([k \in 1..n |-> s[k] * s[k]]) - sum_seq(s) * sum_seq(s),
            n * (n - 1))

\* data.groupby('stock')[column].last(): the last value of every stock in
\* frame order, the stocks sorted.
groupby_stock_last(rows, column) ==
    LET stocks == sorted_symbols({rows[i].stock : i \in 1..Len(rows)})
    IN  [n \in 1..Len(stocks) |->
            LET own == rows_of_stock(rows, stocks[n])
            IN  [stock |-> stocks[n], value |-> own[Len(own)][column]]]

\* data.groupby('stock')[column].sum()
groupby_stock_sum(rows, column) ==
    LET stocks == sorted_symbols({rows[i].stock : i \in 1..Len(rows)})
    IN  [n \in 1..Len(stocks) |->
            LET own == rows_of_stock(rows, stocks[n])
            IN  [stock |-> stocks[n],
                 value |-> sum_seq([k \in 1..Len(own) |-> own[k][column]])]]

series_values(series) == [n \in 1..Len(series) |-> series[n].value]

\* idxmax() and idxmin(): the label of the first largest / smallest value.
idxmax(series) ==
    LET n == CHOOSE n \in 1..Len(series) :
                /\ series[n].value = max_of(series_values(series))
                /\ \A m \in 1..(n - 1) : series[m].value # series[n].value
    IN  series[n].stock
idxmin(series) ==
    LET n == CHOOSE n \in 1..Len(series) :
                /\ series[n].value = min_of(series_values(series))
                /\ \A m \in 1..(n - 1) : series[m].value # series[n].value
    IN  series[n].stock

Stat(metric, value) == [metric |-> metric, value |-> value]
Statistics(stats) == [raised |-> FALSE, stats |-> stats]
\* A KeyError or ValueError: the table was emptied by setRowCount(0) before.
StatisticsError == [raised |-> TRUE, stats |-> <<>>]

\* study_type == "Market Value"
market_value_statistics(frame) ==
    IF ~has_column(frame, "stock") \/ ~has_column(frame, "market_value")
    THEN StatisticsError
    ELSE LET latest_values == groupby_stock_last(frame.rows, "market_value")
             values == series_values(latest_values)
         IN  Statistics(
               <<Stat("Total Portfolio Value", Q(sum_seq(values))),
                 Stat("Number of Holdings", Q(Len(latest_values))),
                 Stat("Largest Holding",
                      [stock |-> idxmax(latest_values), value |-> Q(max_of(values))]),
                 Stat("Smallest Holding",
                      [stock |-> idxmin(latest_values), value |-> Q(min_of(values))])>>)

\* study_type == "Profitability"; params['display_type'] raises KeyError
\* when the key is not in params.
profitability_statistics(frame, q) ==
    IF "display_type" \notin DOMAIN q THEN StatisticsError
    ELSE LET daily == q.time_period = "Daily Changes"
             metric == IF q.display_type = "Percentage"
                       THEN (IF daily THEN "daily_pl_pct" ELSE "total_return_pct")
                       ELSE (IF daily THEN "daily_pl" ELSE "total_return")
             column == [k \in 1..Len(frame.rows) |-> frame.rows[k][metric]]
         IN  IF ~has_column(frame, metric) THEN StatisticsError
             ELSE Statistics(
                    <<Stat("Average Return", series_mean(column)),
                      Stat("Best Return", series_max(column)),
                      Stat("Worst Return", series_min(column)),
                      Stat("Volatility", series_variance(column))>>)

\* study_type == "Dividend Performance"
dividend_statistics(frame, q) ==
    LET cash == q.view_type = "Cash Dividends"
        total_col == IF cash THEN "cash_dividends_total" ELSE "drp_shares_total"
        period_col == IF cash THEN "cash_dividend" ELSE "drp_share"
        rows == frame.rows
        totals == dropna([k \in 1..Len(rows) |-> rows[k][total_col]])
        periods == dropna([k \in 1..Len(rows) |-> rows[k][period_col]])
    IN  IF ~has_column(frame, total_col) \/ ~has_column(frame, period_col)
        THEN StatisticsError
        ELSE Statistics(
               <<Stat("Total Received", series_max(totals)),
                 Stat("Average Per Period", series_mean(periods)),
                 Stat("Largest Single Payment", series_max(periods)),
                 Stat("Number of Payments",
                      Q(Cardinality({k \in 1..Len(rows) :
                                        /\ rows[k][period_col] # None
                                        /\ rows[k][period_col][1] > 0})))>>)

\* The distribution over all the rows of the frame, whatever their date.
distribution_statistics_of_all_rows(frame) ==
    IF \E c \in {"date", "stock", "market_value"} : ~has_column(frame, c)
    THEN StatisticsError
    ELSE LET holdings == groupby_stock_sum(frame.rows, "market_value")
             values == series_values(holdings)
         IN  Statistics(
               <<Stat("Number of Holdings", Q(Len(holdings))),
                 Stat("Total Portfolio Value", Q(sum_seq(values))),
                 Stat("Largest Allocation",
                      [stock |-> idxmax(holdings),
                       value |-> Div(100 * max_of(values), sum_seq(values))]),
                 Stat("Smallest Allocation",
                      [stock |-> idxmin(holdings),
                       value |-> Div(100 * min_of(values), sum_seq(values))])>>)

\* The else branch: the distribution on the latest date of the frame.
distribution_statistics(frame) ==
    IF \E c \in {"date", "stock", "market_value"} : ~has_column(frame, c)
    THEN StatisticsError
    ELSE LET rows == frame.rows
             latest_date == max_of([k \in 1..Len(rows) |-> rows[k].date])
             latest_values == rows_of_date(rows, latest_date)
             holdings == groupby_stock_sum(latest_values, "market_value")
             values == series_values(holdings)
         IN  Statistics(
               <<Stat("Number of Holdings", Q(Len(holdings))),
                 Stat("Total Portfolio Value", Q(sum_seq(values))),
                 Stat("Largest Allocation",
                      [stock |-> idxmax(holdings),
                       value |-> Div(100 * max_of(values), sum_seq(values))]),
                 Stat("Smallest Allocation",
                      [stock |-> idxmin(holdings),
                       value |-> Div(100 * min_of(values), sum_seq(values))])>>)

\* The statistics update_statistics_table(q) puts in the table for self.data.
statistics_of(frame, q) ==
    CASE q.study_type = "Market Value" -> market_value_statistics(frame)
      [] q.study_type = "Profitability" -> profitability_statistics(frame, q)
      [] q.study_type = "Dividend Performance" -> dividend_statistics(frame, q)
      [] OTHER -> distribution_statistics(frame)

\* update_statistics_table(q) called on its own, self.data being a frame.
update_statistics_table(q) ==
    /\ pc = "done"
    /\ outcome.kind = "frame"
    /\ data # None
    /\ stats_table' = statistics_of(data[1], q).stats
    /\ out' = Some([kind |-> IF statistics_of(data[1], q).raised THEN "error" ELSE "statistics",
                     params |-> q])
    /\ pc' = "statistics"
    /\ UNCHANGED <<store, params, fields, idx, data_frames, reads, outcome, data,
                   message, charts_tab, date_container>>

-----------------------------------------------------------------------------
(* The statistics study: update_statistics_table over dividend frames *)

\* The dividend columns of stock k[1] on day k[2] when it is paid pay[d] on
\* every day d of `present`: the totals are the running sums of the stock.
\* A day without cash reinvests one share.
RunningCols(k, present, pay) ==
    LET before == {d \in present : d <= k[2]}
        shares == [d \in before |-> IF pay[d] = 0 THEN 1 ELSE 0]
    IN  [c \in MetricColumns |->
            CASE c = "cash_dividend" -> Some(pay[k[2]])
              [] c = "cash_dividends_total" -> Some(SumOver(before, pay))
              [] c = "drp_share" -> Some(shares[k[2]])
              [] c = "drp_shares_total" -> Some(SumOver(before, shares))
              [] c = "close_price" -> Some(2)
              [] OTHER -> 0]

RunningRows(stock_id, present, pay) ==
    {DbRow(stock_id, d, RunningCols(<<stock_id, d>>, present, pay)) : d \in present}

\* A is paid 0 or 5 on the days it has a row, B is paid 1.
RunningTables ==
    {RunningRows(1, pa, pay) \cup RunningRows(2, pb, [d \in Dates |-> 1]) :
        pa \in SUBSET Dates, pb \in SUBSET Dates, pay \in [Dates -> {0, 5}]}

StatisticsCalls ==
    {[BaseParams EXCEPT !.study_type = "dividend_performance", !.selected_stocks = sel] :
        sel \in {<<"A">>, <<"A", "B">>}}

\* The params update_statistics_table is called with.
StatisticsParams ==
    {[study_type |-> "Dividend Performance", view_type |-> vt,
      time_period |-> "Cumulative"] : vt \in {"Cash Dividends", "DRP"}}
    \cup {[study_type |-> st, view_type |-> "individual_stocks",
           time_period |-> "Daily Changes"] : st \in {"Market Value", "Profitability"}}
    \cup {[study_type |-> "Profitability", view_type |-> "individual_stocks",
           time_period |-> "Daily Changes", display_type |-> "Percentage"]}

InitStatistics ==
    \E table \in RunningTables : \E p \in StatisticsCalls : AfterFetch(table, p)

NextStatistics == \E q \in StatisticsParams : update_statistics_table(q)

SpecStatistics == InitStatistics /\ [][NextStatistics]_vars

-----------------------------------------------------------------------------
(* plot_distribution and analyse_portfolio *)

\* self.view.figure.clear(): nothing is drawn.
Cleared == [kind |-> "cleared", aligned |-> None, lines |-> <<>>, stack |-> <<>>]

\* plot_data of plot_distribution.
distribution_data(rows) == ffill(asfreq_D(unstack(rows, "market_value")))

\* update_distribution(position): the pie of the stocks with a positive
\* forward-filled value on unique_dates[position].
update_distribution(plot_data, position) ==
    LET current_data == plot_data.val[position]
        positive == select_in(plot_data.columns,
                              {s \in Range(plot_data.columns) :
                                  current_data[s] # None /\ current_data[s][1] > 0})
    IN  [kind |-> "distribution",
         aligned |-> Some(plot_data),
         lines |-> <<>>,
         stack |-> [n \in 1..Len(positive) |->
                      [label |-> positive[n],
                       x |-> <<plot_data.index[position]>>,
                       y |-> <<current_data[positive[n]]>>]]]

\* What plot_distribution does for self.data: the figure, whether a date
\* container is attached and recorded, whether it raises.  `found` tells
\* whether the view has a Charts tab.
distribution_result(rows, found) ==
    IF has_duplicate_index(rows)
    THEN [figure |-> PlotError, attached |-> FALSE, raised |-> TRUE]
    ELSE IF ~found
    THEN [figure |-> Cleared, attached |-> FALSE, raised |-> FALSE]
    ELSE [figure |-> update_distribution(distribution_data(rows), 1),
          attached |-> TRUE, raised |-> FALSE]

Drawn(figure) == [figure |-> figure, attached |-> FALSE, raised |-> figure.kind = "error"]

\* The dispatch of analyse_portfolio on params['study_type'].
plot_result(rows, p, found) ==
    CASE p.study_type = "market_value" -> Drawn(market_value_result(rows, p))
      [] p.study_type = "profitability" -> Drawn(profitability_result(rows, p))
      [] p.study_type = "dividend_performance" -> Drawn(dividends_result(rows, p))
      [] OTHER -> distribution_result(rows, found)

\* A container the Charts tab does not hold yet.
new_container == CHOOSE n \in 1..(Cardinality(charts_tab) + 1) : n \notin charts_tab

\* analyse_portfolio(p) starts: cleanup_distribution_widgets deletes the
\* recorded date container, then get_portfolio_data(p) starts.
analyse_portfolio_begin(p) ==
    /\ pc = "idle"
    /\ charts_tab' = IF date_container # None
                     THEN charts_tab \ {date_container[1]} ELSE charts_tab
    /\ date_container' = None
    /\ message' = None
    /\ params' = p
    /\ fields' = build_fields(p)
    /\ idx' = 1
    /\ data_frames' = <<>>
    /\ reads' = <<>>
    /\ outcome' = Pending
    /\ pc' = "fetching"
    /\ UNCHANGED <<store, data, out, stats_table>>

\* The warning of a failed fetch with the retained frame dropped.
analyse_portfolio_failed_drops_frame ==
    /\ pc = "done"
    /\ outcome.kind = "raised"
    /\ message' = Some("Analysis Error")
    /\ data' = None
    /\ pc' = "idle"
    /\ UNCHANGED <<store, params, fields, idx, data_frames, reads, outcome, out,
                   stats_table, charts_tab, date_container>>

\* get_portfolio_data raised: the except clause of analyse_portfolio warns.
analyse_portfolio_failed ==
    /\ pc = "done"
    /\ outcome.kind = "raised"
    /\ message' = Some("Analysis Error")
    /\ pc' = "idle"
    /\ UNCHANGED <<store, params, fields, idx, data_frames, reads, outcome, data, out,
                   stats_table, charts_tab, date_container>>

\* The warning with the figure cleared first.
analyse_portfolio_no_data_clears_figure ==
    /\ pc = "done"
    /\ outcome.kind = "frame"
    /\ data[1].rows = <<>>
    /\ message' = Some("No Data")
    /\ out' = Some(Cleared)
    /\ pc' = "idle"
    /\ UNCHANGED <<store, params, fields, idx, data_frames, reads, outcome, data,
                   stats_table, charts_tab, date_container>>

\* self.data.empty: the warning "No Data", and the call returns.
analyse_portfolio_no_data ==
    /\ pc = "done"
    /\ outcome.kind = "frame"
    /\ data[1].rows = <<>>
    /\ message' = Some("No Data")
    /\ pc' = "idle"
    /\ UNCHANGED <<store, params, fields, idx, data_frames, reads, outcome, data, out,
                   stats_table, charts_tab, date_container>>

\* The frame has rows: the figure is cleared, the study is plotted and the
\* statistics table is updated; an exception of either ends the call with
\* the warning "Analysis Error".
analyse_portfolio_show(found) ==
    /\ has_rows
    /\ LET plot == plot_result(data[1].rows, params, found)
           statistics == statistics_of(data[1], params)
       IN  /\ out' = Some(plot.figure)
           /\ charts_tab' = IF plot.attached THEN charts_tab \cup {new_container}
                            ELSE charts_tab
           /\ date_container' = IF plot.attached THEN Some(new_container)
                                ELSE date_container
           /\ stats_table' = IF plot.raised THEN stats_table ELSE statistics.stats
           /\ message' = IF plot.raised \/ statistics.raised
                         THEN Some("Analysis Error") ELSE message
    /\ pc' = "idle"
    /\ UNCHANGED <<store, params, fields, idx, data_frames, reads, outcome, data>>

\* The slider of the date container is moved: update_distribution redraws.
slider_value_changed(position) ==
    /\ pc = "idle"
    /\ date_container # None
    /\ out # None
    /\ out[1].kind = "distribution"
    /\ position \in 1..Len(out[1].aligned[1].index)
    /\ out' = Some(update_distribution(out[1].aligned[1], position))
    /\ UNCHANGED <<store, params, pc, fields, idx, data_frames, reads, outcome, data, widgets>>

\* The containers that may be left on the Charts tab before the rendering
\* layer stops failing.
MaxLeft == 2

\* plot_distribution with a Charts tab whose first draw raises: the
\* rendering layer (ax.pie, canvas.draw) fails inside update_distribution(0),
\* after the date container was added to the tab and before it is recorded
\* in self.date_container.  The except clauses put the error text on the
\* axis, re-raise and warn; the statistics are not updated.
analyse_portfolio_draw_error ==
    /\ has_rows
    /\ distribution_result(data[1].rows, TRUE).attached
    /\ plot_result(data[1].rows, params, TRUE) = distribution_result(data[1].rows, TRUE)
    /\ Cardinality(charts_tab) < MaxLeft
    /\ out' = Some(PlotError)
    /\ charts_tab' = charts_tab \cup {new_container}
    /\ message' = Some("Analysis Error")
    /\ pc' = "idle"
    /\ UNCHANGED <<store, params, fields, idx, data_frames, reads, outcome, data,
                   stats_table, date_container>>

\* The rows of the analysis study: A is worth 100 and 10 more a day, B 50.
AnalyseCols(k) ==
    [c \in MetricColumns |->
        CASE c = "market_value" -> IF k[1] = 1 THEN 90 + 10 * k[2] ELSE 50
          [] c = "total_return" -> IF k[1] = 1 THEN 5 + 5 * k[2] ELSE 20
          [] c = "daily_pl" -> IF k[1] = 1 THEN 5 ELSE 1
          [] c = "daily_pl_pct" -> 2
          [] c = "total_return_pct" -> 3 * k[2]
          [] c = "cumulative_return_pct" -> 4 * k[2]
          [] c = "cash_dividend" -> Some(5)
          [] c = "cash_dividends_total" -> Some(5 * k[2])
          [] c = "drp_share" -> Some(1)
          [] c = "drp_shares_total" -> Some(k[2])
          [] c = "close_price" -> Some(2)]

\* A has a row on any of the dates, B on the first date at most.
AnalyseKeys == ({1} \X Dates) \cup {<<2, 1>>}

AnalyseTables == TablesOver(AnalyseKeys, [k \in AnalyseKeys |-> {AnalyseCols(k)}])

AnalyseCall(study_type, sel, vt, ct) ==
    [BaseParams EXCEPT !.study_type = study_type, !.selected_stocks = sel,
                       !.view_type = vt, !.chart_type = ct]

\* One call of every study type, a study type no branch knows, the study
\* type names update_statistics_table compares with, and selections that
\* fetch nothing or fetch a stock twice.
AnalyseCalls ==
    {AnalyseCall("market_value", <<"A", "B">>, "portfolio_total", "line_chart"),
     AnalyseCall("profitability", <<"A", "B">>, "individual_stocks", "dollar_value"),
     AnalyseCall("dividend_performance", <<"A", "B">>, "individual_stocks", "combined"),
     AnalyseCall("portfolio_distribution", <<"A", "B">>, "individual_stocks", "line_chart"),
     AnalyseCall("Market Value", <<"A", "B">>, "individual_stocks", "line_chart"),
     AnalyseCall("Profitability", <<"A", "B">>, "individual_stocks", "dollar_value"),
     AnalyseCall("market_value", <<"X">>, "portfolio_total", "line_chart"),
     AnalyseCall("portfolio_distribution", <<"A", "A">>, "individual_stocks", "line_chart")}

InitAnalyse ==
    /\ store \in AnalyseTables
    /\ params = BaseParams
    /\ pc = "idle"
    /\ fields = <<>>
    /\ idx = 1
    /\ data_frames = <<>>
    /\ reads = <<>>
    /\ outcome = Pending
    /\ data = None
    /\ out = None
    /\ NoWidgets

NextAnalyse ==
    \/ \E p \in AnalyseCalls : analyse_portfolio_begin(p)
    \/ skip_symbol
    \/ read_stock
    \/ read_error
    \/ get_portfolio_data_return
    \/ analyse_portfolio_failed
    \/ analyse_portfolio_no_data
    \/ \E found \in BOOLEAN : analyse_portfolio_show(found)
    \/ \E position \in 1..MaxDate : slider_value_changed(position)

SpecAnalyse == InitAnalyse /\ [][NextAnalyse]_vars

-----------------------------------------------------------------------------
(* get_active_stocks_for_date_range *)

\* The stocks table: the yahoo_symbol of every stock id.  X and C are stocks
\* of the database that the live portfolio does not hold.
DbSymbols == <<"A", "B", "X", "C">>

\* The stock ids that portfolio_stocks links to the current portfolio.
LinkedStockIds == {i \in DOMAIN DbSymbols : DbSymbols[i] # "C"}

\* x > 0 for a nullable column: NULL > 0 is not true.
positive(v) == v # None /\ v[1] > 0

\* The rows of final_metrics that the JOIN and the WHERE of stock_activity
\* keep for one stock.
activity_rows(table, stock_id, start_date, end_date) ==
    {r \in table : /\ r.stock_id = stock_id
                   /\ start_date <= r.date
                   /\ r.date <= end_date}

\* SUM(CASE WHEN fm.market_value > 0 THEN 1 ELSE 0 END)
active_days(rows) == Cardinality({r \in rows : r.market_value > 0})

\* The dividend_days of a dividend type that the query has a column for.
dividend_days_cash_only(rows, dividend_type) ==
    Cardinality({r \in rows : positive(r.cash_dividend)})

dividend_days(rows, dividend_type) ==
    Cardinality({r \in rows :
        CASE dividend_type = "cash" -> positive(r.cash_dividend)
          [] dividend_type = "drp" -> positive(r.drp_share)
          [] dividend_type = "combined" ->
                positive(r.cash_dividend) \/ positive(r.drp_share)})

\* `if dividend_type:`
truthy(dividend_type) == dividend_type # None /\ dividend_type[1] # ""

\* The ids of the groups that the outer SELECT keeps.
active_ids(table, start_date, end_date, dividend_type) ==
    {i \in LinkedStockIds :
        LET rows == activity_rows(table, i, start_date, end_date)
        IN  /\ rows # {}
            /\ IF truthy(dividend_type)
               THEN dividend_days(rows, dividend_type[1]) > 0
               ELSE active_days(rows) > 0}

\* The groups of a set of ids as the sequence ORDER BY yahoo_symbol gives.
RECURSIVE order_by_symbol(_)
order_by_symbol(ids) ==
    IF ids = {} THEN <<>>
    ELSE LET first == CHOOSE i \in ids :
                         \A j \in ids : RankOf(DbSymbols[i]) <= RankOf(DbSymbols[j])
         IN  <<[id |-> first, yahoo_symbol |-> DbSymbols[first]]>>
                \o order_by_symbol(ids \ {first})

\* The query names dividend_days in its WHERE whenever dividend_type is
\* truthy, and selects it only for 'cash', 'drp' and 'combined': with any
\* other type the statement does not compile and the read raises.
query_compiles(dividend_type) ==
    truthy(dividend_type) => dividend_type[1] \in {"cash", "drp", "combined"}

\* The loop over the results: the stock objects of the live portfolio, a
\* symbol the portfolio does not hold being skipped with a warning.
RECURSIVE active_stocks(_)
active_stocks(results) ==
    IF results = <<>> THEN <<>>
    ELSE LET stock == get_stock(Head(results).yahoo_symbol)
         IN  (IF stock # None THEN <<stock[1]>> ELSE <<>>) \o active_stocks(Tail(results))

ActiveCall(start_date, end_date, dividend_type) ==
    [start_date |-> start_date, end_date |-> end_date, dividend_type |-> dividend_type]

\* One call whose read returns.
get_active_stocks_for_date_range(start_date, end_date, dividend_type) ==
    /\ pc = "idle"
    /\ query_compiles(dividend_type)
    /\ reads' = <<[pos |-> 0, stock_id |-> 0, ok |-> TRUE]>>
    /\ out' = Some([kind |-> "stocks",
                    stocks |-> active_stocks(order_by_symbol(
                                  active_ids(store, start_date, end_date, dividend_type))),
                    params |-> ActiveCall(start_date, end_date, dividend_type)])
    /\ pc' = "active"
    /\ UNCHANGED <<store, params, fields, idx, data_frames, outcome, data, widgets>>

\* One call whose read raises (the database fails, or the statement does not
\* compile): the except clause logs the error and returns the empty list.
get_active_stocks_read_error(start_date, end_date, dividend_type) ==
    /\ pc = "idle"
    /\ reads' = <<[pos |-> 0, stock_id |-> 0, ok |-> FALSE]>>
    /\ out' = Some([kind |-> "stocks",
                    stocks |-> <<>>,
                    params |-> ActiveCall(start_date, end_date, dividend_type)])
    /\ pc' = "active"
    /\ UNCHANGED <<store, params, fields, idx, data_frames, outcome, data, widgets>>

-----------------------------------------------------------------------------
(* The active-holdings study: calls of get_active_stocks_for_date_range *)

\* The kinds of row of the study: nothing held, a holding, a cash payment
\* and a reinvestment.
ActiveCols(kind) ==
    [c \in MetricColumns |->
        CASE c = "market_value" -> IF kind \in {"held", "drp"} THEN 100 ELSE 0
          [] c = "cash_dividend" ->
                IF kind = "cash" THEN Some(5) ELSE IF kind = "held" THEN Some(0) ELSE None
          [] c = "drp_share" ->
                IF kind = "drp" THEN Some(1) ELSE IF kind = "idle" THEN Some(0) ELSE None
          [] OTHER -> Zero(c)]

ActiveKeys == ({1} \X Dates) \cup {<<i, 1>> : i \in DOMAIN DbSymbols \ {1}}

ActiveKinds(k) ==
    CASE DbSymbols[k[1]] = "A" -> {"absent", "idle", "held", "cash", "drp"}
      [] DbSymbols[k[1]] = "B" -> {"absent", "held", "cash"}
      [] DbSymbols[k[1]] = "X" -> {"absent", "cash"}
      [] OTHER -> {"drp"}

ActiveTables ==
    {{DbRow(k[1], k[2], ActiveCols(kinds[k])) : k \in {j \in ActiveKeys : kinds[j] # "absent"}} :
        kinds \in {f \in [ActiveKeys -> {"absent", "idle", "held", "cash", "drp"}] :
                      \A k \in ActiveKeys : f[k] \in ActiveKinds(k)}}

DividendTypes == {None, Some("cash"), Some("drp"), Some("combined"), Some("monthly")}

InitActive ==
    /\ store \in ActiveTables
    /\ params = BaseParams
    /\ pc = "idle"
    /\ fields = <<>>
    /\ idx = 1
    /\ data_frames = <<>>
    /\ reads = <<>>
    /\ outcome = Pending
    /\ data = None
    /\ out = None
    /\ NoWidgets

NextActive ==
    \E start_date \in Dates, end_date \in Dates, dividend_type \in DividendTypes :
        \/ get_active_stocks_for_date_range(start_date, end_date, dividend_type)
        \/ get_active_stocks_read_error(start_date, end_date, dividend_type)

SpecActive == InitActive /\ [][NextActive]_vars

-----------------------------------------------------------------------------
(* The widget study: analyses whose distribution plot may fail in the draw *)

NextWidgets ==
    \/ NextAnalyse
    \/ analyse_portfolio_draw_error

SpecWidgets == InitAnalyse /\ [][NextWidgets]_vars

-----------------------------------------------------------------------------
(* Properties of get_portfolio_data *)

FirstIndex(s, x) == CHOOSE i \in 1..Len(s) : s[i] = x /\ \A j \in 1..(i - 1) : s[j] # x

\* The fixed column set of a study type, empty for an unknown one.
C1_FixedSet(study_type) ==
    CASE study_type = "market_value" -> <<"market_value">>
      [] study_type = "profitability" ->
            <<"total_return", "market_value", "daily_pl", "daily_pl_pct",
              "total_return_pct", "cumulative_return_pct">>
      [] study_type = "dividend_performance" ->
            <<"cash_dividend", "cash_dividends_total", "drp_share",
              "drp_shares_total", "close_price">>
      [] OTHER -> <<>>

C1_Concatenation ==
    <<"date", "market_value">> \o C1_FixedSet(params.study_type)
        \o params.metric.val \o params.metrics.val

\* C1: the column list of get_portfolio_data is the order-preserving
\* de-duplication of ['date', 'market_value'] ++ the fixed set of the study
\* type ++ metric ++ metrics: it holds every name of the concatenation once,
\* in the order of first occurrence, starts with date then market_value, and
\* is exactly ['date', 'market_value'] for an unknown study type with no
\* extra metric.
C1_FieldsAreOrderedDeduplication ==
    pc # "idle" =>
        /\ Range(fields) = Range(C1_Concatenation)
        /\ \A i, j \in 1..Len(fields) : i # j => fields[i] # fields[j]
        /\ \A i, j \in 1..Len(fields) :
              i < j => FirstIndex(C1_Concatenation, fields[i])
                          < FirstIndex(C1_Concatenation, fields[j])
        /\ fields[1] = "date" /\ fields[2] = "market_value"
        /\ ( /\ params.study_type \notin KnownStudyTypes
             /\ params.metric.val = <<>>
             /\ params.metrics.val = <<>> )
           => fields = <<"date", "market_value">>

\* A profitability call whose metric list and metrics list repeat columns.
C1_Witness ==
    /\ pc = "done"
    /\ params.study_type = "profitability"
    /\ params.metric = List(<<"close_price", "market_value">>)
    /\ params.metrics = List(<<"close_price", "close_price">>)
    /\ fields = <<"date", "market_value", "total_return", "daily_pl", "daily_pl_pct",
                  "total_return_pct", "cumulative_return_pct", "close_price">>

\* The rows the table holds for a symbol of the portfolio in the date range
\* of the call, in date order, as rows of the frame tagged with the symbol.
C2_RowsOf(yahoo_symbol) ==
    LET hit == {r \in store : /\ r.stock_id = PortfolioIds[yahoo_symbol]
                              /\ params.start_date <= r.date
                              /\ r.date <= params.end_date}
        ordered == OrderByDate(hit)
    IN  [k \in 1..Len(ordered) |->
            [c \in Range(fields) \cup {"stock"} |->
                IF c = "stock" THEN yahoo_symbol ELSE ordered[k][c]]]

RECURSIVE C2_Expected(_)
C2_Expected(sel) ==
    IF sel = <<>> THEN <<>>
    ELSE (IF Head(sel) \in DOMAIN PortfolioIds THEN C2_RowsOf(Head(sel)) ELSE <<>>)
            \o C2_Expected(Tail(sel))

\* C2: when no read fails, get_portfolio_data returns the concatenation, in
\* selected_stocks order, of the rows read for each selected symbol that
\* resolves to a stock, tagged with the symbol and in per-stock row order;
\* unresolved symbols and empty results add nothing, and the result is the
\* empty frame when no stock produced data (an empty selection included).
C2_ConcatenationInSelectionOrder ==
    (pc = "done" /\ \A k \in 1..Len(reads) : reads[k].ok) =>
        /\ outcome.kind = "frame"
        /\ outcome.frame.rows = C2_Expected(selected_stocks)
        /\ C2_Expected(selected_stocks) = <<>> => outcome.frame = EmptyFrame
        /\ selected_stocks = <<>> => outcome.frame = EmptyFrame

\* X is skipped, then B's two rows in range are returned in date order.
C2_Witness ==
    /\ pc = "done"
    /\ selected_stocks = <<"X", "B">>
    /\ outcome.kind = "frame"
    /\ Len(outcome.frame.rows) = 2
    /\ outcome.frame.rows[1].stock = "B"
    /\ outcome.frame.rows[1].date < outcome.frame.rows[2].date

\* C3: a failed read aborts the fetch: it is the last read, the error is
\* what the caller gets, no frame is returned or kept, and the remaining
\* stocks are not read; the reads of a fetch are issued once per selected
\* entry that resolves to a stock, in selected_stocks order.
C3_ReadFailureAbortsFetch ==
    /\ \A k \in 1..Len(reads) :
          LET prev == IF k = 1 THEN 0 ELSE reads[k - 1].pos
          IN  /\ reads[k].pos \in (prev + 1)..Len(selected_stocks)
              /\ get_stock(selected_stocks[reads[k].pos]) # None
              /\ reads[k].stock_id = PortfolioIds[selected_stocks[reads[k].pos]]
              /\ \A q \in (prev + 1)..(reads[k].pos - 1) :
                    get_stock(selected_stocks[q]) = None
              /\ ~reads[k].ok =>
                    /\ k = Len(reads)
                    /\ pc = "done"
                    /\ outcome = Raised
                    /\ data = None
    /\ outcome.kind = "raised" <=> (reads # <<>> /\ ~reads[Len(reads)].ok)

\* The read of A fails while B, which has rows in range, is still to be read.
C3_Witness ==
    /\ pc = "done"
    /\ selected_stocks = <<"A", "B">>
    /\ reads = <<[pos |-> 1, stock_id |-> 1, ok |-> FALSE]>>
    /\ outcome = Raised
    /\ C2_RowsOf("B") # <<>>

\* C4: the returned frame holds at most one row for each (date, stock), and
\* the stock of every row is a stock of the portfolio.
C4_NoDuplicateDateStock ==
    (pc = "done" /\ outcome.kind = "frame") =>
        LET rows == outcome.frame.rows
        IN  /\ \A i, j \in 1..Len(rows) :
                  (rows[i].date = rows[j].date /\ rows[i].stock = rows[j].stock) => i = j
            /\ \A i \in 1..Len(rows) : get_stock(rows[i].stock) # None

-----------------------------------------------------------------------------
(* Properties of plot_market_value *)

FrameRows == data[1].rows
FrameDates == {FrameRows[i].date : i \in 1..Len(FrameRows)}
FrameStocks == {FrameRows[i].stock : i \in 1..Len(FrameRows)}
MinDate == CHOOSE d \in FrameDates : \A e \in FrameDates : d <= e
MaxFrameDate == CHOOSE d \in FrameDates : \A e \in FrameDates : e <= d

\* The value of `column` in the latest row of stock s dated D or earlier,
\* and nothing when s has no such row.
LastObserved(column, s, D) ==
    LET obs == {i \in 1..Len(FrameRows) : FrameRows[i].stock = s /\ FrameRows[i].date <= D}
    IN  IF obs = {} THEN None
        ELSE LET i == CHOOSE i \in obs : \A j \in obs : FrameRows[j].date <= FrameRows[i].date
             IN  Some(FrameRows[i][column])

OrZero(v) == IF v = None THEN 0 ELSE v[1]

MarketValuePlotted ==
    /\ pc = "plotted"
    /\ out # None
    /\ out[1].kind = "market_value"

\* C5: the aligned market-value frame has one row for every calendar day from
\* the minimum to the maximum date of the frame, and the value of a stock on
\* day D is its observation at its latest observed date at or before D, and
\* is unset when the stock has no observation at or before D.
C5_AlignedIsDailyForwardFill ==
    MarketValuePlotted =>
        LET aligned == out[1].aligned[1]
        IN  /\ Len(aligned.index) = MaxFrameDate - MinDate + 1
            /\ \A k \in 1..Len(aligned.index) : aligned.index[k] = MinDate + k - 1
            /\ Range(aligned.columns) = FrameStocks
            /\ \A k \in 1..Len(aligned.index) : \A s \in FrameStocks :
                  aligned.val[k][s] = LastObserved("market_value", s, aligned.index[k])

\* A has rows on days 1 and 3 only, B's first row is on day 2: day 2 of A is
\* filled from day 1 and day 1 of B stays unset.
C5_Witness ==
    /\ MarketValuePlotted
    /\ {r.date : r \in {q \in store : q.stock_id = 1}} = {1, 3}
    /\ {r.date : r \in {q \in store : q.stock_id = 2}} = {2}
    /\ selected_stocks = <<"A", "B">>
    /\ out[1].aligned[1].index = <<1, 2, 3>>
    /\ out[1].aligned[1].val[2]["A"] = out[1].aligned[1].val[1]["A"]
    /\ out[1].aligned[1].val[3]["A"] # out[1].aligned[1].val[1]["A"]
    /\ out[1].aligned[1].val[1]["B"] = None
    /\ out[1].aligned[1].val[3]["B"] = Some(50)

C6_ExpectedTotal(D) ==
    SumOver(FrameStocks,
            [s \in FrameStocks |-> OrZero(LastObserved("market_value", s, D))])

\* C6: in the portfolio-total view of market value the total of every
\* calendar day from the minimum to the maximum date is the sum over the
\* stocks of their forward-filled market value, a stock still unset counting
\* as zero: the line of the line chart is that sum, and the layers of the
\* stacked area are the stocks' forward-filled values with 0 for unset.
C6_TotalIsSumOfForwardFilled ==
    (MarketValuePlotted /\ params.view_type = "portfolio_total") =>
        LET days == [k \in 1..(MaxFrameDate - MinDate + 1) |-> MinDate + k - 1]
        IN  /\ params.chart_type = "line_chart" =>
                /\ Len(out[1].lines) = 1
                /\ out[1].lines[1].x = days
                /\ out[1].lines[1].y = [k \in 1..Len(days) |-> Some(C6_ExpectedTotal(days[k]))]
            /\ params.chart_type = "stacked_area" =>
                /\ {out[1].stack[n].label : n \in 1..Len(out[1].stack)} = FrameStocks
                /\ \A n \in 1..Len(out[1].stack) :
                      /\ out[1].stack[n].x = days
                      /\ out[1].stack[n].y =
                            [k \in 1..Len(days) |->
                                Some(OrZero(LastObserved("market_value",
                                                         out[1].stack[n].label, days[k])))]
                /\ \A k \in 1..Len(days) :
                      SumOver(1..Len(out[1].stack),
                              [n \in 1..Len(out[1].stack) |-> out[1].stack[n].y[k][1]])
                         = C6_ExpectedTotal(days[k])

\* A = [100, 110] on days 1 and 2, B = [50] on day 1 only: totals [150, 160].
C6_Witness ==
    /\ MarketValuePlotted
    /\ params.view_type = "portfolio_total"
    /\ params.chart_type = "line_chart"
    /\ store = {DbRow(1, 1, [c \in MetricColumns |-> IF c = "market_value" THEN 100 ELSE Zero(c)]),
                DbRow(1, 2, [c \in MetricColumns |-> IF c = "market_value" THEN 110 ELSE Zero(c)]),
                DbRow(2, 1, [c \in MetricColumns |-> IF c = "market_value" THEN 50 ELSE Zero(c)])}
    /\ selected_stocks = <<"A", "B">>
    /\ out[1].lines[1].y = <<Some(150), Some(160)>>

-----------------------------------------------------------------------------
(* Properties of the profitability computations *)

\* The sum of a column over the rows of the frame dated D.
SumOfDate(column, D) ==
    LET at == {i \in 1..Len(FrameRows) : FrameRows[i].date = D}
    IN  SumOver(at, [i \in at |-> FrameRows[i][column]])

\* The sum over the stocks of the frame of their forward-filled value on day D.
SumForwardFilled(column, D) ==
    SumOver(FrameStocks, [s \in FrameStocks |-> OrZero(LastObserved(column, s, D))])

PeriodMetric == IF params.calculation_type = "daily" THEN "daily_pl" ELSE "total_return"

PercentageTotalPlotted ==
    /\ pc = "plotted"
    /\ out[1].kind = "profitability"
    /\ params.view_type = "portfolio_total"
    /\ params.chart_type = "percentage"

\* The percentage total that plot_profitability draws is value weighted: per
\* date of the frame over the rows of the date in the daily view, per calendar
\* day over the forward-filled values in the cumulative view (zero_at_start
\* not set).
C7_PlottedTotalIsValueWeighted ==
    (PercentageTotalPlotted /\ ~(params.zero_at_start /\ params.calculation_type = "cumulative")) =>
        LET line == out[1].lines[1]
        IN  /\ Len(out[1].lines) = 1
            /\ params.calculation_type = "daily" =>
                  /\ Range(line.x) = FrameDates
                  /\ \A k \in 1..Len(line.x) :
                        SumOfDate("market_value", line.x[k]) > 0 =>
                            EqQ(line.y[k], Div(100 * SumOfDate("daily_pl", line.x[k]),
                                               SumOfDate("market_value", line.x[k])))
            /\ params.calculation_type = "cumulative" =>
                  /\ Range(line.x) = MinDate..MaxFrameDate
                  /\ \A k \in 1..Len(line.x) :
                        SumForwardFilled("market_value", line.x[k]) > 0 =>
                            EqQ(line.y[k],
                                Div(100 * SumForwardFilled("total_return", line.x[k]),
                                    SumForwardFilled("market_value", line.x[k])))

\* The value column of calculate_portfolio_total_metrics in percentage mode
\* is 100 * sum(column) / sum(market_value) over the rows of each date.
TotalMetricsIsValueWeighted(column) ==
    (pc = "totalled" /\ params.chart_type = "percentage") =>
        LET rows == out[1].frame.rows
        IN  /\ {rows[k].date : k \in 1..Len(rows)} = FrameDates
            /\ \A k \in 1..Len(rows) :
                  SumOfDate("market_value", rows[k].date) > 0 =>
                      EqQ(rows[k].value[1],
                          Div(100 * SumOfDate(column, rows[k].date),
                              SumOfDate("market_value", rows[k].date)))

\* C7: in percentage mode the portfolio total of each date is
\* 100 * (sum over stocks of the dollar metric of the selected period,
\* daily_pl for daily and total_return for cumulative) / (sum over stocks of
\* market_value) wherever the summed market value is positive, both for
\* calculate_portfolio_total_metrics and for plot_profitability.
C7_TotalOfSelectedPeriod ==
    /\ C7_PlottedTotalIsValueWeighted
    /\ TotalMetricsIsValueWeighted(PeriodMetric)

ProfitabilityPlotted ==
    /\ pc = "plotted"
    /\ out[1].kind = "profitability"

\* The metric the claim names for a chart type and a calculation type.
C12_Metric ==
    CASE params.chart_type = "dollar_value" ->
            (IF params.calculation_type = "daily" THEN "daily_pl" ELSE "total_return")
      [] params.chart_type = "percentage" ->
            (IF params.calculation_type = "daily" THEN "daily_pl_pct" ELSE "total_return_pct")
      [] OTHER -> "cumulative_return_pct"

\* C12: for every calculation type, chart type and view type over a
\* non-empty frame plot_profitability draws a series of the metric of the
\* combination (zero_at_start not set): each stock's rows of the metric in the
\* individual view; in the portfolio total the per-day sum of daily_pl or
\* total_return for dollar value, the value-weighted percentage for
\* percentage, a series for aggregated percentage; no combination draws
\* nothing.
C12_EveryCombinationDrawsItsMetric ==
    (ProfitabilityPlotted /\ ~params.zero_at_start) =>
        LET lines == out[1].lines
        IN  /\ Len(lines) >= 1
            /\ params.view_type = "individual_stocks" =>
                  /\ Len(lines) = Len(selected_stocks)
                  /\ \A n \in 1..Len(lines) :
                        LET own == {i \in 1..Len(FrameRows) : FrameRows[i].stock = selected_stocks[n]}
                        IN  /\ lines[n].label = selected_stocks[n]
                            /\ Len(lines[n].y) = Cardinality(own)
                            /\ {<<lines[n].x[k], lines[n].y[k]>> : k \in 1..Len(lines[n].y)}
                                  = {<<FrameRows[i].date, Q(FrameRows[i][C12_Metric])>> : i \in own}
            /\ (params.view_type = "portfolio_total" /\ params.chart_type = "dollar_value") =>
                  IF params.calculation_type = "cumulative"
                  THEN /\ Range(lines[1].x) = MinDate..MaxFrameDate
                       /\ \A k \in 1..Len(lines[1].x) :
                             lines[1].y[k] = Q(SumForwardFilled("total_return", lines[1].x[k]))
                  ELSE /\ Range(lines[1].x) = FrameDates
                       /\ \A k \in 1..Len(lines[1].x) :
                             lines[1].y[k] = Q(SumOfDate("daily_pl", lines[1].x[k]))
            /\ (params.view_type = "portfolio_total" /\ params.chart_type = "percentage") =>
                  C7_PlottedTotalIsValueWeighted

DeltasComputed ==
    /\ pc = "deltas"
    /\ out # None

\* The frame calculate_deltas was given in the individual view.
C8_GivenFrame == fetched_frame(store, params)

\* C8: calculate_deltas keeps every row and sets the delta of each row to its
\* value minus the value of the row before it in the same series, missing on
\* the first row of the series: per stock in the individual_stocks view, and
\* on the aggregated series of calculate_portfolio_total_metrics, for the
\* dollar_value and the percentage chart type, otherwise.
C8_DeltasOfEverySeries ==
    DeltasComputed =>
        /\ out[1].kind = "deltas"
        /\ LET q == out[1].params
               rows == out[1].frame.rows
           IN  IF q.view_type = "individual_stocks"
               THEN /\ Len(rows) = Len(C8_GivenFrame.rows)
                    /\ \A i \in 1..Len(rows) :
                          LET given == C8_GivenFrame.rows
                              before == {j \in 1..(i - 1) : given[j].stock = given[i].stock}
                              column == replace_delta(q.metric)
                          IN  /\ \A c \in DOMAIN given[i] : rows[i][c] = given[i][c]
                              /\ before = {} => rows[i].value = None
                              /\ before # {} =>
                                    LET j == CHOOSE j \in before : \A h \in before : h <= j
                                    IN  rows[i].value = Some(Q(given[i][column] - given[j][column]))
               ELSE /\ {rows[k].date : k \in 1..Len(rows)} = FrameDates
                    /\ Len(rows) = Cardinality(FrameDates)
                    /\ rows[1].value = None
                    /\ \A k \in 2..Len(rows) :
                          /\ rows[k - 1].date < rows[k].date
                          /\ rows[k].value # None
                          /\ IF params.chart_type = "dollar_value"
                             THEN EqQ(rows[k].value[1],
                                      Q(SumOfDate("total_return", rows[k].date)
                                          - SumOfDate("total_return", rows[k - 1].date)))
                             ELSE rows[k].value[1] =
                                    Sub(Div(100 * SumOfDate("total_return", rows[k].date),
                                            SumOfDate("market_value", rows[k].date)),
                                        Div(100 * SumOfDate("total_return", rows[k - 1].date),
                                            SumOfDate("market_value", rows[k - 1].date)))

\* The lines plot_profitability would draw without zero_at_start.
C9_PlainLines ==
    profitability_result(FrameRows, [params EXCEPT !.zero_at_start = FALSE]).lines

\* C9: with zero_at_start on a cumulative view every series drawn starts at
\* exactly 0 and keeps the differences between consecutive points of the
\* series drawn without it; on a daily view zero_at_start changes nothing.
C9_ZeroAtStartShiftsSeries ==
    (pc = "plotted" /\ params.zero_at_start) =>
        IF params.calculation_type = "cumulative"
        THEN \A n \in 1..Len(out[1].lines) :
                LET y == out[1].lines[n].y
                    plain == C9_PlainLines[n].y
                IN  /\ Len(y) = Len(plain)
                    /\ Len(y) > 0 => EqQ(y[1], Q(0))
                    /\ \A k \in 1..(Len(y) - 1) :
                          EqQ(Sub(y[k + 1], y[k]), Sub(plain[k + 1], plain[k]))
        ELSE out[1].lines = C9_PlainLines

\* The individual cumulative view with zero_at_start has been plotted.
ZeroedIndividualPlotted ==
    /\ pc = "plotted"
    /\ params.study_type = "profitability"
    /\ params.view_type = "individual_stocks"
    /\ params.calculation_type = "cumulative"
    /\ params.zero_at_start

\* A selected symbol has no row in the frame.
SymbolWithoutRows ==
    \E n \in 1..Len(selected_stocks) : selected_stocks[n] \notin FrameStocks

\* C21: in the individual cumulative view with zero_at_start, a selected
\* symbol without rows in a non-empty frame is passed over: the plot is
\* produced without error, and every selected stock that has rows gets its
\* series, one point per row, starting at 0.
C21_SymbolWithoutRowsIsNoOp ==
    (ZeroedIndividualPlotted /\ SymbolWithoutRows) =>
        /\ out[1].kind = "profitability"
        /\ \A s \in FrameStocks :
              \E n \in 1..Len(out[1].lines) :
                  /\ out[1].lines[n].label = s
                  /\ Len(out[1].lines[n].y) = Len(rows_of_stock(FrameRows, s))
                  /\ EqQ(out[1].lines[n].y[1], Q(0))

-----------------------------------------------------------------------------
(* Properties of plot_dividends *)

CombinedPlotted ==
    /\ pc = "plotted"
    /\ out[1].kind = "dividends"
    /\ params.chart_type = "combined"

\* The row of the frame for a stock and a date (one at most when the plot
\* is produced).
RowOf(s, D) ==
    LET i == CHOOSE i \in 1..Len(FrameRows) : FrameRows[i].stock = s /\ FrameRows[i].date = D
    IN  FrameRows[i]

HasRow(s, D) ==
    \E i \in 1..Len(FrameRows) : FrameRows[i].stock = s /\ FrameRows[i].date = D

\* The cash value of a stock on a date, 0 if missing.
CashOrZero(s, D) ==
    LET column == IF params.time_period = "cumulative"
                  THEN "cash_dividends_total" ELSE "cash_dividend"
    IN  IF HasRow(s, D) /\ RowOf(s, D)[column] # None THEN RowOf(s, D)[column][1] ELSE 0

\* The DRP dollar value of a stock on a date, 0 if missing.
DrpOrZero(s, D) ==
    LET column == IF params.time_period = "cumulative"
                  THEN "drp_shares_total" ELSE "drp_share"
    IN  IF HasRow(s, D) /\ RowOf(s, D)[column] # None /\ RowOf(s, D).close_price # None
        THEN RowOf(s, D)[column][1] * RowOf(s, D).close_price[1]
        ELSE 0

\* C10: in the combined dividend view, for every stock and every date of the
\* frame, combined = (cash value, or 0 if missing) + (DRP dollar value, or 0
\* if missing), the DRP dollar value being drp_share * close_price in the
\* daily view and drp_shares_total * close_price in the cumulative view; the
\* individual view draws these values, one line per stock.
C10_CombinedIsCashPlusDrp ==
    CombinedPlotted =>
        LET combined == out[1].aligned[1]
        IN  /\ Range(combined.columns) = FrameStocks
            /\ FrameDates \subseteq Range(combined.index)
            /\ \A s \in FrameStocks : \A D \in FrameDates :
                  LET k == PositionOf(combined.index, D)
                  IN  /\ combined.val[k][s] = Some(CashOrZero(s, D) + DrpOrZero(s, D))
                      /\ params.view_type = "individual_stocks" =>
                            \E n \in 1..Len(out[1].lines) :
                                /\ out[1].lines[n].label = s
                                /\ out[1].lines[n].x[k] = D
                                /\ out[1].lines[n].y[k] = Some(CashOrZero(s, D) + DrpOrZero(s, D))

\* Stock A with cash 5, 0, 5 and DRP values 0, 2, 0 on three days is drawn as
\* 5, 2, 5 in the daily combined view, next to a stock B that has no row on
\* the second day.
C10_Witness ==
    /\ CombinedPlotted
    /\ params.time_period = "daily"
    /\ params.view_type = "individual_stocks"
    /\ FrameDates = {1, 2, 3}
    /\ FrameStocks = {"A", "B"}
    /\ \A D \in {1, 3} : CashOrZero("A", D) = 5 /\ DrpOrZero("A", D) = 0
    /\ CashOrZero("A", 2) = 0 /\ DrpOrZero("A", 2) = 2
    /\ ~HasRow("B", 2)
    /\ out[1].lines[1].label = "A"
    /\ out[1].lines[1].y = <<Some(5), Some(2), Some(5)>>
    /\ out[1].lines[2].y[2] = Some(0)

DividendsPlotted ==
    /\ pc = "plotted"
    /\ out[1].kind = "dividends"

\* The value of the row of stock s dated E in the charted quantity: the cash
\* column, the DRP dollar value, or their combination.
DividendValue(s, E) ==
    LET cumulative == params.time_period = "cumulative"
        row == RowOf(s, E)
    IN  CASE params.chart_type = "cash" ->
                IF cumulative THEN row.cash_dividends_total ELSE row.cash_dividend
          [] params.chart_type = "drp" ->
                times(IF cumulative THEN row.drp_shares_total ELSE row.drp_share,
                      row.close_price)
          [] OTHER -> Some(CashOrZero(s, E) + DrpOrZero(s, E))

\* The value of stock s at its most recent observation at or before day D,
\* unset when it has none.
LastDividendValue(s, D) ==
    LET obs == {E \in FrameDates : E <= D /\ HasRow(s, E) /\ DividendValue(s, E) # None}
    IN  IF obs = {} THEN None
        ELSE DividendValue(s, CHOOSE E \in obs : \A F \in obs : F <= E)

\* C11: in every cumulative dividend view (cash, drp, combined) the plotted
\* frame has one row per calendar day from the minimum to the maximum date,
\* and the value of a stock on day D is its value at its most recent
\* observation at or before D (also on a day where another stock has a row
\* and this one has none), unset before the stock's first observation.
C11_CumulativeDividendsForwardFilled ==
    (DividendsPlotted /\ params.time_period = "cumulative") =>
        LET aligned == out[1].aligned[1]
        IN  /\ aligned.index = [k \in 1..(MaxFrameDate - MinDate + 1) |-> MinDate + k - 1]
            /\ Range(aligned.columns) = FrameStocks
            /\ \A k \in 1..Len(aligned.index) : \A s \in FrameStocks :
                  aligned.val[k][s] = LastDividendValue(s, aligned.index[k])

-----------------------------------------------------------------------------
(* Properties of update_statistics_table and analyse_portfolio *)

\* An analysis has ended with the plot drawn and the statistics updated.
AnalysisShown ==
    /\ pc = "idle"
    /\ outcome.kind = "frame"
    /\ data # None
    /\ data[1].rows # <<>>
    /\ message = None

HasStat(value) == \E n \in 1..Len(stats_table) : stats_table[n].value = value

\* The last known market value of a stock of the frame.
LastMarketValue(s) == LastObserved("market_value", s, MaxFrameDate)[1]

\* C13: after an analysis of study type market_value the statistics are the
\* total of the stocks' last known market values (a stock whose last row is
\* earlier than the latest date included), the number of stocks of the
\* frame, and the largest and the smallest holding with symbol and value.
C13_MarketValueStatistics ==
    (AnalysisShown /\ params.study_type = "market_value") =>
        /\ HasStat(Q(SumOver(FrameStocks, [s \in FrameStocks |-> LastMarketValue(s)])))
        /\ HasStat(Q(Cardinality(FrameStocks)))
        /\ \E s \in FrameStocks :
              /\ \A t \in FrameStocks : LastMarketValue(t) <= LastMarketValue(s)
              /\ HasStat([stock |-> s, value |-> Q(LastMarketValue(s))])
        /\ \E s \in FrameStocks :
              /\ \A t \in FrameStocks : LastMarketValue(s) <= LastMarketValue(t)
              /\ HasStat([stock |-> s, value |-> Q(LastMarketValue(s))])

\* A study type neither analyse_portfolio nor update_statistics_table names.
Unrecognized(study_type) ==
    study_type \notin {"market_value", "profitability", "dividend_performance",
                       "Market Value", "Profitability", "Dividend Performance"}

\* The market value of the rows of stock s on the latest date of the frame.
LatestAllocation(s) ==
    LET own == {i \in 1..Len(FrameRows) :
                  FrameRows[i].stock = s /\ FrameRows[i].date = MaxFrameDate}
    IN  SumOver(own, [i \in own |-> FrameRows[i].market_value])

LatestStocks ==
    {FrameRows[i].stock : i \in {j \in 1..Len(FrameRows) : FrameRows[j].date = MaxFrameDate}}

\* C15: an analysis of an unrecognized study type over a non-empty frame
\* ends without an exception leaving it; the plot is the distribution plot
\* (which fails, with a warning, only on a duplicate (date, stock) row), and
\* when it succeeds the statistics are those of the distribution over the
\* rows of the latest date: holding count, total value, largest and smallest
\* allocation with the percentage share of the total.
C15_UnrecognizedIsDistribution ==
    (/\ pc = "idle"
     /\ outcome.kind = "frame"
     /\ data # None
     /\ data[1].rows # <<>>
     /\ Unrecognized(params.study_type)) =>
        LET total == SumOfDate("market_value", MaxFrameDate)
        IN  /\ out[1].kind \in {"distribution", "cleared", "error"}
            /\ out[1].kind = "error" <=> has_duplicate_index(FrameRows)
            /\ out[1].kind = "error" <=> message = Some("Analysis Error")
            /\ out[1].kind # "error" =>
                  /\ message = None
                  /\ Len(stats_table) = 4
                  /\ stats_table[1].value = Q(Cardinality(LatestStocks))
                  /\ stats_table[2].value = Q(total)
                  /\ \E s \in LatestStocks :
                        /\ \A t \in LatestStocks : LatestAllocation(t) <= LatestAllocation(s)
                        /\ stats_table[3].value =
                              [stock |-> s, value |-> Div(100 * LatestAllocation(s), total)]
                  /\ \E s \in LatestStocks :
                        /\ \A t \in LatestStocks : LatestAllocation(s) <= LatestAllocation(t)
                        /\ stats_table[4].value =
                              [stock |-> s, value |-> Div(100 * LatestAllocation(s), total)]

\* The distribution of A (days 1 and 2) and B (day 1 only): the statistics
\* count one holding, A on day 2, worth 110.
C15_Witness ==
    /\ pc = "idle"
    /\ params.study_type = "portfolio_distribution"
    /\ outcome.kind = "frame"
    /\ data # None
    /\ FrameStocks = {"A", "B"}
    /\ LatestStocks = {"A"}
    /\ out[1].kind = "distribution"
    /\ stats_table[1].value = Q(1)
    /\ stats_table[2].value = Q(110)
    /\ stats_table[3].value = [stock |-> "A", value |-> Q(100)]

\* The running total of stock s at its last row of the frame.
FinalRunningTotal(column, s) == LastObserved(column, s, MaxFrameDate)[1][1]

\* C14: in the dividend statistics 'Total Received' is the maximum of the
\* cumulative-total column and is the final value of the running total of
\* the dividends received for the selection, one stock or several, and
\* 'Number of Payments' is the number of rows with a positive payment.
C14_DividendStatistics ==
    (/\ pc = "statistics"
     /\ out[1].params.study_type = "Dividend Performance"
     /\ FrameRows # <<>>) =>
        LET cash == out[1].params.view_type = "Cash Dividends"
            total_col == IF cash THEN "cash_dividends_total" ELSE "drp_shares_total"
            period_col == IF cash THEN "cash_dividend" ELSE "drp_share"
            paid == {i \in 1..Len(FrameRows) : FrameRows[i][period_col][1] > 0}
        IN  /\ out[1].kind = "statistics"
            /\ stats_table[1].metric = "Total Received"
            /\ \E i \in 1..Len(FrameRows) : stats_table[1].value = Q(FrameRows[i][total_col][1])
            /\ \A i \in 1..Len(FrameRows) :
                  FrameRows[i][total_col][1] <= stats_table[1].value.num
            /\ stats_table[1].value =
                  Q(SumOver(FrameStocks,
                            [s \in FrameStocks |-> FinalRunningTotal(total_col, s)]))
            /\ stats_table[4].metric = "Number of Payments"
            /\ stats_table[4].value = Q(Cardinality(paid))

\* C19: the transform operations treat the fetched rows as immutable: after
\* calculate_portfolio_total_metrics or calculate_deltas has run, the frame
\* that was fetched and passed in has the columns and the values it had.
C19_FetchedFrameIsImmutable ==
    (pc \in {"totalled", "deltas"}) => data = Some(fetched_frame(store, params))

\* The step in which get_portfolio_data returns a frame to analyse_portfolio.
FetchReturns ==
    /\ pc = "fetching"
    /\ pc' = "done"
    /\ outcome'.kind = "frame"

NotShown ==
    \/ pc' = "fetching"
    \/ pc = "fetching"
    \/ pc = "done" /\ ~has_rows

\* C20: a call whose fetch returns an empty frame ends with the 'No Data'
\* warning and no exception, and from its start to its end the figure and
\* the statistics table stay as they were before the call.
C20_NoDataKeepsFigureAndStatistics ==
    [][/\ NotShown => (out' = out /\ stats_table' = stats_table)
       /\ (pc = "done" /\ outcome.kind = "frame" /\ data[1].rows = <<>>) =>
             (pc' = "idle" /\ message' = Some("No Data"))]_vars

\* A call has ended with 'No Data' while the figure and the statistics of an
\* earlier call are shown.
C20_Witness ==
    /\ pc = "idle"
    /\ outcome.kind = "frame"
    /\ data # None
    /\ data[1].rows = <<>>
    /\ message = Some("No Data")
    /\ out # None
    /\ out[1].kind \notin {"cleared", "error"}
    /\ stats_table # <<>>

\* C22: between the calls of analyse_portfolio at most one date container is
\* on the Charts tab, and a container on the tab is the one recorded in
\* self.date_container, which the cleanup of the next call deletes.
C22_OneRecordedContainer ==
    pc = "idle" =>
        /\ Cardinality(charts_tab) <= 1
        /\ \A c \in charts_tab : date_container = Some(c)

-----------------------------------------------------------------------------
(* Properties of get_active_stocks_for_date_range *)

ActiveReturned ==
    /\ pc = "active"
    /\ reads[1].ok

\* A row that qualifies its stock for the dividend type of the call.
Qualifies(r, dividend_type) ==
    CASE dividend_type = None -> r.market_value > 0
      [] dividend_type = Some("cash") -> r.cash_dividend # None /\ r.cash_dividend[1] > 0
      [] dividend_type = Some("drp") -> r.drp_share # None /\ r.drp_share[1] > 0
      [] dividend_type = Some("combined") ->
            \/ r.cash_dividend # None /\ r.cash_dividend[1] > 0
            \/ r.drp_share # None /\ r.drp_share[1] > 0

\* The symbols of the live portfolio with a qualifying row in the range.
QualifyingSymbols(call) ==
    {s \in DOMAIN PortfolioIds :
        \E r \in store : /\ r.stock_id = PortfolioIds[s]
                         /\ call.start_date <= r.date
                         /\ r.date <= call.end_date
                         /\ Qualifies(r, call.dividend_type)}

C17_FailureBubblesToCaller ==
    (pc = "active" /\ ~reads[1].ok) => out[1].kind = "raised"

\* The states the studies start in are the states a fetch without a failed
\* read ends in.
FetchEndsAfterFetch ==
    (pc = "done" /\ outcome.kind = "frame") => AfterFetch(store, params)

====
